---- MODULE Spec2Model ----
(***************************************************************************)
(* Model of the PPL -> MNS causal-estimation tool.                         *)
(*                                                                         *)
(*  Part I  : the batch estimator, scripts/estimate_causal_managers.py     *)
(*            (main, _process_one_manager, the shared domain-KPI cache,    *)
(*            the resumable CSV output).  Specification Spec.              *)
(*  Part II : the team-KPI aggregator, src/data.py aggregate_team_kpis.    *)
(*            Specification AggSpec.                                       *)
(***************************************************************************)
EXTENDS Integers, Sequences, FiniteSets, TLC

(***************************************************************************)
(* Bounds of the model.                                                    *)
(***************************************************************************)
MaxManagers == 2     \* managers list_managers can return
MaxWorkers  == 2     \* largest --workers value explored
MaxTeamRows == 3     \* rows of a team-KPI table
MaxSeriesLen == 8    \* months of a PPL table given to the RCA
MaxCommands == 4     \* commands typed in one console session
MaxSnapshots == 5    \* months in which a manager can have employee snapshots

(***************************************************************************)
(* Part I.  Batch estimator.                                               *)
(***************************************************************************)
VARIABLES
    csv_exists,        \* outpath.exists()
    csv_rows,          \* the rows of the output CSV, every cell a string
    phase,             \* position of main(): idle, processing, sorted,
                       \*   done, aborted (uncaught exception), exit1
    workers,           \* max(1, args.workers)
    use_output,        \* args.output is given (the same in every run)
    all_manager_codes, \* managers_df["employee_code"].tolist()
    existing_rows,     \* rows read back from the CSV
    manager_codes,     \* the managers this run processes
    new_rows,          \* rows appended by main() as managers finish
    rows,              \* existing_rows + new_rows, sorted
    task,              \* per manager: the state of its _process_one_manager call
    domain_cache,      \* keys present in the shared domain-KPI cache
    domain_cache_lock, \* 0 = free, otherwise the manager task holding it
    conn_users,        \* per Dal object: the tasks that ran a query on it
    loads,             \* per cache key: calls of load_manager_domain_kpis
    summary            \* the printed summary (empty record before it)

VARIABLES
    agg_in,            \* the table passed to aggregate_team_kpis
    agg_cols,          \* the optional columns that table has
    agg_in_dtype,      \* dtype of the numeric columns of that table object
    agg_out,           \* the table it returns
    agg_again,         \* what it returns when called on agg_out
    agg_pc             \* "off" (not in use), "input", "done", "again";
                       \*   "filtered", "raised" for apply_team_size_filter

VARIABLES
    flt_min,           \* min_headcount of the call of apply_team_size_filter
    flt_out,           \* the table it returns
    flt_raised_min,    \* min_headcount of a second call on the same table
    flt_raised_out     \* the table the second call returns

batchVars == <<csv_exists, csv_rows, phase, workers, use_output,
               all_manager_codes, existing_rows, manager_codes, new_rows,
               rows, task, domain_cache, domain_cache_lock, conn_users,
               loads, summary>>
VARIABLES
    rca_ppl,           \* ppl_data passed to run_correlation
    rca_domain,        \* domain_df passed to run_correlation
    rca_prepared,      \* (config, df_dict) returned by prepare_rca_data
    rca_engine_input,  \* the df_dict rca_calculation was called with
    rca_result,        \* the frame run_correlation returns
    rca_pc             \* "off", "input", "prepared", "returned", "raised"

VARIABLES
    candidates,        \* _run_interactive: the frame find returned
    profile,           \* the dict of the selected manager
    mns_clusters,      \* the cached cluster list
    last_ppl_data,     \* the PPL frame kpis loaded
    last_domain_df,    \* the domain frame kpis loaded
    con_last,          \* the last command typed and the calls it made
    con_rca,           \* the last call of _interactive_correlate
    con_n,             \* the number of commands typed
    con_pc             \* "off", "prompt", "quit", "crashed"
VARIABLES
    team_db,           \* ppl_employees: the teams of each snapshot month
    team_snaps,        \* snaps_df
    team_i,            \* position of the loop over snaps_df
    team_queries,      \* the snapshots manager_active_teams.sql was run for
    team_result,       \* what _load_active_teams returns
    team_pc            \* "off", "start", "loop", "fallback", "returned"

conVars == <<candidates, profile, mns_clusters, last_ppl_data, last_domain_df,
             con_last, con_rca, con_n, con_pc>>
teamVars == <<team_db, team_snaps, team_i, team_queries, team_result, team_pc>>
extVars == <<conVars, teamVars>>
fltVars == <<flt_min, flt_out, flt_raised_min, flt_raised_out>>
rcaVars == <<rca_ppl, rca_domain, rca_prepared, rca_engine_input, rca_result, rca_pc>>
aggVars == <<agg_in, agg_cols, agg_in_dtype, agg_out, agg_again, agg_pc, fltVars, rcaVars, extVars>>
vars == <<batchVars, aggVars>>

(***************************************************************************)
(* Strings that are compared with < (manager codes) are sequences of       *)
(* character codes; Python compares str lexicographically.                 *)
(***************************************************************************)
StrLess(a, b) ==
    \E k \in 1..(Len(a) + 1) :
        /\ \A j \in 1..(k - 1) : j <= Len(b) /\ a[j] = b[j]
        /\ k <= Len(b)
        /\ (k > Len(a) \/ a[k] < b[k])

StrLeq(a, b) == a = b \/ StrLess(a, b)

\* The employee codes list_managers returns, in the order it returns them:
\* distinct, non-empty hashes.  Codes 2j-1 and 2j share their first
\* character, one being a prefix of the other.
ManagerCode(i) ==
    IF i % 2 = 1 THEN <<MaxManagers + 1 - i, 1>>
                 ELSE <<MaxManagers + 2 - i>>

Managers == 1..MaxManagers

\* list_managers(limit=limit): the first `limit` managers
ListManagers(limit) == [i \in 1..limit |-> ManagerCode(i)]

Range(s) == {s[i] : i \in DOMAIN s}

\* the manager (index) an employee code belongs to
ManagerOf(code) == CHOOSE i \in Managers : ManagerCode(i) = code

(***************************************************************************)
(* Rows.  A row is the dict _process_one_manager returns; the display-only *)
(* columns (manager_code_short, kpi_mapping_search_text, causal_counts)    *)
(* are derived from the others and left out.  None is the string "None".   *)
(***************************************************************************)
None == "None"

NewOut(manager_code) ==
    [manager_code_full |-> manager_code,
     kpi_mapping |-> "",
     geo_count |-> 0,
     n_star1 |-> 0,
     n_star2 |-> 0,
     n_star3 |-> 0,
     has_causal_insights |-> FALSE,
     n_correlations |-> 0,
     status |-> "ok",
     error |-> None]

\* the row main() builds when fut.result() raises (lines 343-357)
WorkerFailedRow(mc, msg) ==
    [NewOut(mc) EXCEPT !.status = "error", !.error = msg]

Statuses == {"no_profile", "no_kpi_mapping", "no_ppl_data", "no_domain_data",
             "ok", "error"}

\* str(e) of the exceptions the data layer and the RCA library raise
ExcMsgs == {"db_error"}

(***************************************************************************)
(* The CSV file.  csv.DictWriter writes str(value), and "" for None;       *)
(* csv.DictReader returns every cell as a string.                          *)
(***************************************************************************)
Digits == <<"0", "1", "2", "3", "4", "5", "6", "7", "8", "9">>

\* str(n) for the small counts of the model
IntToStr(n) == Digits[n + 1]

\* int(val), ValueError -> 0 (lines 229-232)
ParseInt(s) ==
    IF s = "" THEN 0
    ELSE IF \E d \in 1..Len(Digits) : Digits[d] = s
         THEN (CHOOSE d \in 1..Len(Digits) : Digits[d] = s) - 1
         ELSE 0

BoolToStr(b) == IF b THEN "True" ELSE "False"

\* str(val).strip().lower()
StripLower(s) ==
    CASE s = "True" -> "true"
      [] s = "False" -> "false"
      [] OTHER -> s

\* one line of w.writerows(rows) (lines 398-406)
CsvWriteRow(r) ==
    [manager_code_full |-> r.manager_code_full,
     kpi_mapping |-> r.kpi_mapping,
     geo_count |-> IntToStr(r.geo_count),
     n_star1 |-> IntToStr(r.n_star1),
     n_star2 |-> IntToStr(r.n_star2),
     n_star3 |-> IntToStr(r.n_star3),
     has_causal_insights |-> BoolToStr(r.has_causal_insights),
     n_correlations |-> IntToStr(r.n_correlations),
     status |-> r.status,
     error |-> IF r.error = None THEN "" ELSE r.error]

CsvWrite(rs) == [i \in 1..Len(rs) |-> CsvWriteRow(rs[i])]

\* _normalize_row_from_csv: the count columns back to int, the flag to bool;
\* every other cell stays the string that was read
_normalize_row_from_csv(row) ==
    [manager_code_full |-> row.manager_code_full,
     kpi_mapping |-> row.kpi_mapping,
     geo_count |-> ParseInt(row.geo_count),
     n_star1 |-> ParseInt(row.n_star1),
     n_star2 |-> ParseInt(row.n_star2),
     n_star3 |-> ParseInt(row.n_star3),
     has_causal_insights |->
         StripLower(row.has_causal_insights) \in {"true", "1", "yes"},
     n_correlations |-> ParseInt(row.n_correlations),
     status |-> row.status,
     error |-> row.error]

CsvRead(cells) == [i \in 1..Len(cells) |-> _normalize_row_from_csv(cells[i])]

\* {r["manager_code_full"] for r in existing_rows if r.get("manager_code_full")}
ExistingCodes(ex) ==
    {ex[i].manager_code_full : i \in {j \in DOMAIN ex : ex[j].manager_code_full /= <<>>}}

\* the resume filter left out: every listed manager is processed again
FilterNewNone(codes, existing_codes) == codes

\* [mc for mc in all_manager_codes if mc not in existing_codes]
FilterNew(codes, existing_codes) ==
    SelectSeq(codes, LAMBDA mc : mc \notin existing_codes)

(***************************************************************************)
(* rows.sort(key=lambda r: r.get("manager_code_full", "")): list.sort is   *)
(* a stable sort, ascending on the key.                                    *)
(***************************************************************************)
RECURSIVE InsertRow(_, _)
InsertRow(r, s) ==
    IF s = <<>> THEN <<r>>
    ELSE IF StrLeq(r.manager_code_full, s[1].manager_code_full)
         THEN <<r>> \o s
         ELSE <<s[1]>> \o InsertRow(r, Tail(s))

\* the sort left out: rows stay in completion order
SortRowsNone(s) == s

RECURSIVE SortRowsFrom(_, _)
\* s[n] goes in front of the sorted rest's keys >= its own: equal keys keep their order
SortRowsFrom(s, n) ==
    IF n > Len(s) THEN <<>>
    ELSE InsertRow(s[n], SortRowsFrom(s, n + 1))

SortRows(s) == SortRowsFrom(s, 1)

(***************************************************************************)
(* What the external collaborators return.                                 *)
(***************************************************************************)
\* get_manager_profile: None (found = FALSE), or a dict whose kpi_mapping is
\* None/"" or a code and whose geo_codes is a list of country codes
Profiles ==
    { [found |-> FALSE, kpi_mapping |-> "", geo_codes |-> <<>>],
      [found |-> TRUE, kpi_mapping |-> "", geo_codes |-> <<1>>],
      [found |-> TRUE, kpi_mapping |-> "MSLT_VACCINES", geo_codes |-> <<1, 2>>],
      [found |-> TRUE, kpi_mapping |-> "MSLT_VACCINES", geo_codes |-> <<1>>] }

NoProfile == [found |-> FALSE, kpi_mapping |-> "", geo_codes |-> <<>>]

\* sorted(geo_codes)
RECURSIVE InsertGeo(_, _)
InsertGeo(g, s) ==
    IF s = <<>> THEN <<g>>
    ELSE IF g <= s[1] THEN <<g>> \o s
         ELSE <<s[1]>> \o InsertGeo(g, Tail(s))

RECURSIVE SortedGeos(_)
SortedGeos(s) == IF s = <<>> THEN <<>> ELSE InsertGeo(s[1], SortedGeos(Tail(s)))

\* cache_key = (kpi_mapping, tuple(sorted(geo_codes)))
CacheKey(kpi_mapping, geo_codes) == <<kpi_mapping, SortedGeos(geo_codes)>>

NoKey == <<"", <<>>>>

Keys == {CacheKey(p.kpi_mapping, p.geo_codes) :
            p \in {q \in Profiles : q.found /\ q.kpi_mapping /= ""}}

\* A data frame is "empty" (len 0) or "data" (len > 0); "unset" before the
\* call that loads it
Frames == {"empty", "data"}

\* The explained_entropy column of the frame run_correlation returns, in
\* hundredths; NaN is the value NaN.
NaN == -999
RcaResults == { <<>>, <<10, 30, 31, NaN>> }

\* x > y and x <= y of floats: a comparison with NaN is false
Gt(x, y) == x /= NaN /\ y /= NaN /\ x > y
Le(x, y) == x /= NaN /\ y /= NaN /\ x <= y

\* the column left as it is, NaN included
FillNaNone(x) == x

\* ee.fillna(-1)
FillNa(x) == IF x = NaN THEN -100 ELSE x

\* _count_causal_signals: (n_star1, n_star2, n_star3)
_count_causal_signals(result_df) ==
    IF Len(result_df) = 0 THEN <<0, 0, 0>>
    ELSE LET ee == [i \in DOMAIN result_df |-> FillNa(result_df[i])]
             n_star3 == Cardinality({i \in DOMAIN ee : Gt(ee[i], 30)})
             n_star2 == Cardinality({i \in DOMAIN ee : Gt(ee[i], 10) /\ Le(ee[i], 30)})
             n_star1 == Cardinality({i \in DOMAIN ee : Le(ee[i], 10)})
         IN <<n_star1, n_star2, n_star3>>

(***************************************************************************)
(* The state of one _process_one_manager call.                             *)
(*   pc: none (not part of this run), queued, profile, ppl, lock_get,      *)
(*       cache_get, load, lock_put, cache_put, rca, done (returned a row), *)
(*       raised (the call raised), collected (main() has taken its row)    *)
(* The locals of a call that returns are kept until main() takes the row;  *)
(* the except block uses none of them but out.                             *)
(***************************************************************************)
NoTask ==
    [pc |-> "none", dal |-> 0, profile |-> NoProfile, ppl_data |-> "unset",
     cache_key |-> NoKey, domain_df |-> "unset", rca_ran |-> FALSE,
     exc |-> None, out |-> NewOut(<<>>)]

QueuedTask == [NoTask EXCEPT !.pc = "queued"]
CollectedTask == [NoTask EXCEPT !.pc = "collected"]

Running(m) == task[m].pc \notin {"none", "queued", "done", "raised", "collected"}
Finished(m) == task[m].pc \in {"done", "raised"}

\* the managers (indices) of manager_codes
RunManagers == {ManagerOf(manager_codes[i]) : i \in DOMAIN manager_codes}

collected == {m \in Managers : task[m].pc = "collected"}

EmptySummary == [printed |-> FALSE, total |-> 0, n_ok |-> 0, n_errors |-> 0]

BatchInit ==
    /\ csv_exists = FALSE
    /\ csv_rows = <<>>
    /\ phase = "idle"
    /\ workers = 1
    /\ use_output \in BOOLEAN
    /\ all_manager_codes = <<>>
    /\ existing_rows = <<>>
    /\ manager_codes = <<>>
    /\ new_rows = <<>>
    /\ rows = <<>>
    /\ task = [m \in Managers |-> NoTask]
    /\ domain_cache = {}
    /\ domain_cache_lock = 0
    /\ conn_users = [c \in Managers |-> {}]
    /\ loads = [k \in Keys |-> 0]
    /\ summary = EmptySummary

\* the names of the cause (node) tables the model's PPL tables can give
PplCols == {"headcount", "attrition_rate_pct", "avg_age"}

\* ({"mother_table": {"name": "mns"}, "node_tables": {}}, {}): the value
\* prepare_rca_data returns when there is nothing to analyse.  keys are the
\* keys of df_dict; a table that is not in df_dict is <<>> here.
NothingPrepared ==
    [node_tables |-> {},
     keys |-> {},
     mns |-> <<>>,
     node |-> [c \in PplCols |-> <<>>]]

RcaIdle ==
    /\ rca_ppl = <<>>
    /\ rca_domain = <<>>
    /\ rca_prepared = NothingPrepared
    /\ rca_engine_input = [called |-> FALSE, df_dict |-> NothingPrepared]
    /\ rca_result = <<>>
    /\ rca_pc = "off"

\* profile is None
NoProfileDict == [found |-> FALSE, employee_code |-> "", kpi_mapping |-> ""]

\* a frame or list that is None
NoFrame == [loaded |-> FALSE, manager |-> "", kpi_mapping |-> ""]
NoClusters == [loaded |-> FALSE, bu |-> "", labels |-> <<>>]

NoCommand == [cmd |-> "", arg |-> "", calls |-> {}]
NoRca == [ran |-> FALSE, ppl_data |-> NoFrame, domain_df |-> NoFrame,
          profile |-> NoProfileDict, result |-> <<>>, signals |-> <<>>]

ConIdle ==
    /\ candidates = <<>>
    /\ profile = NoProfileDict
    /\ mns_clusters = NoClusters
    /\ last_ppl_data = NoFrame
    /\ last_domain_df = NoFrame
    /\ con_last = NoCommand
    /\ con_rca = NoRca
    /\ con_n = 0
    /\ con_pc = "off"

NoTeams == [teams |-> <<>>, snap |-> 0]

TeamIdle ==
    /\ team_db = <<>>
    /\ team_snaps = <<>>
    /\ team_i = 0
    /\ team_queries = <<>>
    /\ team_result = NoTeams
    /\ team_pc = "off"

ExtIdle == ConIdle /\ TeamIdle

AggIdle ==
    /\ RcaIdle
    /\ agg_in = <<>>
    /\ agg_cols = {}
    /\ agg_in_dtype = "object"
    /\ agg_out = <<>>
    /\ agg_again = <<>>
    /\ agg_pc = "off"
    /\ flt_min = 0
    /\ flt_out = <<>>
    /\ flt_raised_min = 0
    /\ flt_raised_out = <<>>

(***************************************************************************)
(* main(), lines 282-323: arguments, list_managers, the resumable CSV.     *)
(*   limit      : how many managers list_managers returns (0: none)        *)
(*   arg_workers: --workers                                                *)
(* A run starts from a fresh process: only the CSV file survives a run.    *)
(* The script can be run any number of times.                              *)
(***************************************************************************)
Max(a, b) == IF a >= b THEN a ELSE b

StartRun(limit, arg_workers) ==
    /\ phase \in {"idle", "done", "aborted", "exit1"}
    /\ workers' = Max(1, arg_workers)
    /\ new_rows' = <<>>
    /\ domain_cache' = {}
    /\ domain_cache_lock' = 0
    /\ conn_users' = [c \in Managers |-> {}]
    /\ loads' = [k \in Keys |-> 0]
    /\ summary' = EmptySummary
    /\ all_manager_codes' = ListManagers(limit)
    /\ LET resumed == use_output /\ csv_exists
           ex == IF resumed THEN CsvRead(csv_rows) ELSE <<>>
           mcs == IF resumed
                  THEN FilterNew(ListManagers(limit), ExistingCodes(ex))
                  ELSE ListManagers(limit)
       IN IF limit = 0
          THEN \* len(managers_df) == 0: sys.exit(1)
               /\ phase' = "exit1"
               /\ existing_rows' = <<>>
               /\ manager_codes' = <<>>
               /\ rows' = <<>>
               /\ task' = [m \in Managers |-> NoTask]
          ELSE /\ existing_rows' = ex
               /\ manager_codes' = mcs
               /\ task' = [m \in Managers |->
                              IF ManagerCode(m) \in Range(mcs)
                              THEN QueuedTask ELSE NoTask]
               /\ IF mcs = <<>>
                  THEN \* nothing new: rows = existing_rows, sorted
                       /\ rows' = SortRows(ex)
                       /\ phase' = "sorted"
                  ELSE /\ rows' = <<>>
                       /\ phase' = "processing"
    /\ UNCHANGED <<csv_exists, csv_rows, use_output, aggVars>>

(***************************************************************************)
(* _process_one_manager, one action per call it makes.  With workers <= 1  *)
(* main() runs the calls itself, one after the other (lines 327-329);      *)
(* otherwise the pool runs up to `workers` of them at a time, taking them  *)
(* in submission order (lines 331-335).                                    *)
(***************************************************************************)
Sequential == workers <= 1

\* one module-level Dal object shared by all calls
NewDalShared(m) == 1

\* Dal(): every call constructs a new object; the object made by the call
\* for manager m is named m
NewDal(m) == m

taskFrame == <<csv_exists, csv_rows, workers, use_output,
               all_manager_codes, existing_rows, manager_codes, new_rows,
               rows, summary, aggVars>>

\* The call starts: line 87, dal = Dal(), and lines 88-104.  Dal() is
\* outside the try block: when it raises, the exception leaves
\* _process_one_manager.  In the pool the future keeps it; in sequential
\* mode it leaves main().
TaskStart(m) ==
    /\ phase = "processing"
    /\ task[m].pc = "queued"
    /\ \A j \in RunManagers : j < m => task[j].pc /= "queued"
    /\ IF Sequential
       THEN \A j \in RunManagers : j < m => j \in collected
       ELSE Cardinality({j \in Managers : Running(j)}) < workers
    /\ \/ /\ task' = [task EXCEPT ![m].pc = "profile",
                                  ![m].dal = NewDal(m),
                                  ![m].out = NewOut(ManagerCode(m))]
          /\ phase' = phase
       \/ \E msg \in ExcMsgs :
             /\ task' = [task EXCEPT ![m].pc = "raised", ![m].exc = msg]
             /\ phase' = IF Sequential THEN "aborted" ELSE phase
    /\ UNCHANGED <<taskFrame, domain_cache, domain_cache_lock, conn_users, loads>>

\* except Exception as e (lines 158-162)
Failed(t, msg) ==
    [NoTask EXCEPT !.pc = "done", !.dal = t.dal, !.exc = msg,
                   !.out = [t.out EXCEPT !.status = "error", !.error = msg]]

Returned(t, status) ==
    [t EXCEPT !.pc = "done", !.out = [t.out EXCEPT !.status = status]]

\* a query runs on the Dal object the call holds
Query(m) == conn_users' = [conn_users EXCEPT ![task[m].dal] = @ \cup {m}]

\* lines 108-120: the status a profile ends the call with ("" = go on)
ProfileStatus(p) ==
    IF ~p.found THEN "no_profile"
    ELSE IF p.kpi_mapping = "" THEN "no_kpi_mapping"
    ELSE ""

\* lines 107-123
GetProfile(m) ==
    /\ phase = "processing"
    /\ task[m].pc = "profile"
    /\ Query(m)
    /\ \/ \E msg \in ExcMsgs : task' = [task EXCEPT ![m] = Failed(@, msg)]
       \/ \E p \in Profiles :
            LET t == [task[m] EXCEPT !.profile = p] IN
            task' = [task EXCEPT ![m] =
               CASE ProfileStatus(p) = "no_profile" ->
                        Returned(t, "no_profile")
                 [] ProfileStatus(p) = "no_kpi_mapping" ->
                        Returned([t EXCEPT !.out.geo_count = Len(p.geo_codes)],
                                 "no_kpi_mapping")
                 [] OTHER ->
                        [t EXCEPT !.pc = "ppl",
                                  !.out.kpi_mapping = p.kpi_mapping,
                                  !.out.geo_count = Len(p.geo_codes)]]
    /\ UNCHANGED <<taskFrame, phase, domain_cache, domain_cache_lock, loads>>

\* the empty-PPL check left out
PplStatusNoCheck(f) == ""

\* lines 126-128: the status a PPL frame ends the call with ("" = go on)
PplStatus(f) == IF f = "empty" THEN "no_ppl_data" ELSE ""

\* lines 125-131
LoadTeamKpis(m) ==
    /\ phase = "processing"
    /\ task[m].pc = "ppl"
    /\ Query(m)
    /\ \/ \E msg \in ExcMsgs : task' = [task EXCEPT ![m] = Failed(@, msg)]
       \/ \E f \in Frames :
            LET t == [task[m] EXCEPT !.ppl_data = f] IN
            task' = [task EXCEPT ![m] =
               IF PplStatus(f) /= ""
               THEN Returned(t, PplStatus(f))
               ELSE [t EXCEPT !.pc = "lock_get",
                              !.cache_key = CacheKey(t.profile.kpi_mapping,
                                                     t.profile.geo_codes)]]
    /\ UNCHANGED <<taskFrame, phase, domain_cache, domain_cache_lock, loads>>

(***************************************************************************)
(* The shared cache, lines 132-146.  `with domain_cache_lock:` blocks      *)
(* until the lock is free, takes it, and releases it on leaving the block. *)
(***************************************************************************)
\* the cache accessed without waiting for the lock
LockFreeIgnored == TRUE

LockFree == domain_cache_lock = 0

lockFrame == <<taskFrame, phase, conn_users>>

\* line 134, entering the with block
AcquireForGet(m) ==
    /\ phase = "processing"
    /\ task[m].pc = "lock_get"
    /\ LockFree
    /\ domain_cache_lock' = m
    /\ task' = [task EXCEPT ![m].pc = "cache_get"]
    /\ UNCHANGED <<lockFrame, domain_cache, loads>>

\* line 135, domain_df = domain_cache.get(cache_key), and leaving the with
\* block; then lines 136-138 and, on a hit, line 144 (a cached frame is
\* never empty, line 140)
CacheGet(m) ==
    /\ phase = "processing"
    /\ task[m].pc = "cache_get"
    /\ domain_cache_lock' = 0
    /\ task' = [task EXCEPT
                  ![m].domain_df = IF task[m].cache_key \in domain_cache
                                   THEN "data" ELSE None,
                  ![m].pc = IF task[m].cache_key \in domain_cache
                            THEN "rca" ELSE "load"]
    /\ UNCHANGED <<lockFrame, domain_cache, loads>>

\* lines 139-140 and 144-146: the load runs outside the lock
LoadDomainKpis(m) ==
    /\ phase = "processing"
    /\ task[m].pc = "load"
    /\ Query(m)
    /\ loads' = [loads EXCEPT ![task[m].cache_key] = @ + 1]
    /\ \/ \E msg \in ExcMsgs : task' = [task EXCEPT ![m] = Failed(@, msg)]
       \/ \E f \in Frames :
            LET t == [task[m] EXCEPT !.domain_df = f] IN
            task' = [task EXCEPT ![m] =
               IF f = "empty"
               THEN Returned(t, "no_domain_data")
               ELSE [t EXCEPT !.pc = "lock_put"]]
    /\ UNCHANGED <<taskFrame, phase, domain_cache, domain_cache_lock>>

\* line 141
AcquireForPut(m) ==
    /\ phase = "processing"
    /\ task[m].pc = "lock_put"
    /\ LockFree
    /\ domain_cache_lock' = m
    /\ task' = [task EXCEPT ![m].pc = "cache_put"]
    /\ UNCHANGED <<lockFrame, domain_cache, loads>>

\* line 142, domain_cache.setdefault(cache_key, domain_df), and leaving the
\* with block
CacheSetDefault(m) ==
    /\ phase = "processing"
    /\ task[m].pc = "cache_put"
    /\ domain_cache' = domain_cache \cup {task[m].cache_key}
    /\ domain_cache_lock' = 0
    /\ task' = [task EXCEPT ![m].pc = "rca"]
    /\ UNCHANGED <<lockFrame, loads>>

\* lines 148-156
RunCorrelation(m) ==
    /\ phase = "processing"
    /\ task[m].pc = "rca"
    /\ \/ \E msg \in ExcMsgs : task' = [task EXCEPT ![m] = Failed(@, msg)]
       \/ \E result \in RcaResults :
            LET n == _count_causal_signals(result)
                t == [task[m] EXCEPT !.rca_ran = TRUE,
                                     !.out.n_correlations = Len(result),
                                     !.out.has_causal_insights = Len(result) > 0,
                                     !.out.n_star1 = n[1],
                                     !.out.n_star2 = n[2],
                                     !.out.n_star3 = n[3]]
            IN task' = [task EXCEPT ![m] = Returned(t, "ok")]
    /\ UNCHANGED <<taskFrame, phase, domain_cache, domain_cache_lock,
                   conn_users, loads>>

(***************************************************************************)
(* main(), lines 326-407.                                                  *)
(***************************************************************************)
\* new_rows.append(...): line 329 (sequential), lines 336-357 (pool: the
\* futures in the order they complete, a raised one as an "error" row)
Collect(m) ==
    /\ phase = "processing"
    /\ Finished(m)
    /\ new_rows' = Append(new_rows,
                      IF task[m].pc = "done" THEN task[m].out
                      ELSE WorkerFailedRow(ManagerCode(m), task[m].exc))
    /\ task' = [task EXCEPT ![m] = CollectedTask]
    /\ UNCHANGED <<csv_exists, csv_rows, phase, workers, use_output,
                   all_manager_codes, existing_rows, manager_codes, rows,
                   domain_cache, domain_cache_lock, conn_users, loads,
                   summary, aggVars>>

\* lines 358-359, after the loop / the with-executor block has ended
MergeSort ==
    /\ phase = "processing"
    /\ collected = RunManagers
    /\ rows' = SortRows(existing_rows \o new_rows)
    /\ phase' = "sorted"
    /\ UNCHANGED <<csv_exists, csv_rows, workers, use_output,
                   all_manager_codes, existing_rows, manager_codes, new_rows,
                   task, domain_cache, domain_cache_lock, conn_users, loads,
                   summary, aggVars>>

CountStatus(rs, st) == Cardinality({i \in DOMAIN rs : rs[i].status \in st})

\* lines 361-407: the summary, the table, and the CSV when --output is
\* given; then the process ends, and with it the pool, the cache and the
\* calls' state.  What was printed (rows, summary) and the file remain.
SummaryAndWrite ==
    /\ phase = "sorted"
    /\ summary' = [printed |-> TRUE,
                   total |-> Len(rows),
                   n_ok |-> CountStatus(rows, {"ok"}),
                   n_errors |-> CountStatus(rows, {"error"})]
    /\ IF use_output
       THEN csv_exists' = TRUE /\ csv_rows' = CsvWrite(rows)
       ELSE UNCHANGED <<csv_exists, csv_rows>>
    /\ phase' = "done"
    /\ task' = [m \in Managers |-> NoTask]
    /\ new_rows' = <<>>
    /\ domain_cache' = {}
    /\ conn_users' = [c \in Managers |-> {}]
    /\ loads' = [k \in Keys |-> 0]
    /\ UNCHANGED <<workers, use_output, all_manager_codes,
                   existing_rows, manager_codes, rows, domain_cache_lock,
                   aggVars>>

BatchNext ==
    \/ \E limit \in 0..MaxManagers, arg_workers \in 0..MaxWorkers :
          StartRun(limit, arg_workers)
    \/ \E m \in Managers : TaskStart(m)
    \/ \E m \in Managers : GetProfile(m)
    \/ \E m \in Managers : LoadTeamKpis(m)
    \/ \E m \in Managers : AcquireForGet(m)
    \/ \E m \in Managers : CacheGet(m)
    \/ \E m \in Managers : LoadDomainKpis(m)
    \/ \E m \in Managers : AcquireForPut(m)
    \/ \E m \in Managers : CacheSetDefault(m)
    \/ \E m \in Managers : RunCorrelation(m)
    \/ \E m \in Managers : Collect(m)
    \/ MergeSort
    \/ SummaryAndWrite

Init == BatchInit /\ AggIdle /\ ExtIdle
Next == BatchNext
Spec == Init /\ [][Next]_vars

(***************************************************************************)
(* Properties of the batch estimator.                                      *)
(***************************************************************************)
Codes(rs) == {rs[i].manager_code_full : i \in DOMAIN rs}

RowsOf(rs, code) == {i \in DOMAIN rs : rs[i].manager_code_full = code}

\* C1: in one batch run the managers that share a cache key cause exactly
\* one call of load_manager_domain_kpis for that key: never a second call,
\* and a manager that goes on to the RCA with that key has had the one.
C1_OneLoadPerKey ==
    \A k \in Keys :
        /\ loads[k] <= 1
        /\ (\E m \in Managers : task[m].pc = "rca" /\ task[m].cache_key = k)
               => loads[k] = 1

\* C2: with an existing output CSV, no manager whose full identifier is in
\* the file is processed again (a run whose managers are all in the file
\* processes none); the rows read back are the file's rows; and the
\* rewritten file holds exactly one row per manager, the earlier rows
\* together with the rows of the managers processed in this run.
C2_Resumable ==
    /\ \A m \in Managers :
          task[m].pc /= "none" =>
              ManagerCode(m) \notin ExistingCodes(existing_rows)
    /\ (phase \in {"processing", "sorted", "done"}
          /\ Range(all_manager_codes) \subseteq ExistingCodes(existing_rows))
          => manager_codes = <<>>
    /\ (phase \in {"processing", "sorted"} /\ use_output /\ csv_exists)
          => CsvWrite(existing_rows) = csv_rows
    /\ (phase = "done" /\ use_output) =>
          /\ csv_exists
          /\ \A code \in Codes(csv_rows) : Cardinality(RowsOf(csv_rows, code)) = 1
          /\ Codes(csv_rows) = Codes(existing_rows) \cup Range(all_manager_codes)
          /\ \A i \in DOMAIN existing_rows :
                \E j \in DOMAIN csv_rows : csv_rows[j] = CsvWriteRow(existing_rows[i])

\* a resumed run that has merged earlier rows with newly processed ones
C2_Witness ==
    /\ phase = "done"
    /\ use_output
    /\ existing_rows /= <<>>
    /\ manager_codes /= <<>>
    /\ Len(csv_rows) = Len(existing_rows) + Len(manager_codes)

\* C3: an exception raised anywhere while one manager is processed, in
\* sequential and in pooled mode alike, does not end the run: it yields a
\* row with status "error" and the message for that manager, and every
\* manager of the run has exactly one row in the final table.
C3_FailureIsolated ==
    /\ \A m \in Managers :
          task[m].exc /= None =>
              /\ phase /= "aborted"
              /\ task[m].pc = "done" =>
                    /\ task[m].out.status = "error"
                    /\ task[m].out.error = task[m].exc
    /\ phase = "sorted" =>
          \A i \in DOMAIN manager_codes :
              Cardinality(RowsOf(rows, manager_codes[i])) = 1

\* C4: for a non-empty manager list, any worker count and any pattern of
\* per-manager failures, the run does not abort: when it ends, it has
\* printed the summary and ended normally.
C4_RunCompletes ==
    all_manager_codes /= <<>> =>
        /\ phase /= "aborted"
        /\ phase = "done" => summary.printed

\* the status the detection order gives a call from what its steps found
ExpectedStatus(t) ==
    IF t.exc /= None THEN "error"
    ELSE IF ~t.profile.found THEN "no_profile"
    ELSE IF t.profile.kpi_mapping = "" THEN "no_kpi_mapping"
    ELSE IF t.ppl_data = "empty" THEN "no_ppl_data"
    ELSE IF t.domain_df = "empty" THEN "no_domain_data"
    ELSE "ok"

\* C5: every manager row carries exactly one status of the six, chosen in
\* the detection order missing profile, missing KPI mapping, empty PPL
\* data, empty domain data; the status is "ok" exactly when the RCA was
\* executed.
C5_StatusTaxonomy ==
    /\ \A m \in Managers :
          task[m].pc = "done" =>
              /\ task[m].out.status \in Statuses
              /\ task[m].out.status = ExpectedStatus(task[m])
              /\ task[m].out.status = "ok" <=> task[m].rca_ran
    /\ \A i \in DOMAIN new_rows : new_rows[i].status \in Statuses
    /\ \A i \in DOMAIN rows : rows[i].status \in Statuses

\* two returned calls at different ends of the detection order
C5_Witness ==
    \E m1, m2 \in Managers :
        /\ task[m1].pc = "done" /\ task[m1].out.status = "no_domain_data"
        /\ task[m2].pc = "done" /\ task[m2].out.status = "no_kpi_mapping"

\* C6: every read of and every insert into the shared cache by a worker
\* happens while that worker holds the cache lock, so no two workers access
\* the cache at the same time.
C6_CacheUnderLock ==
    /\ \A m \in Managers :
          task[m].pc \in {"cache_get", "cache_put"} => domain_cache_lock = m
    /\ Cardinality({m \in Managers : task[m].pc \in {"cache_get", "cache_put"}}) <= 1

\* one worker is inside the with block while another waits to enter it
C6_Witness ==
    \E m1, m2 \in Managers :
        /\ task[m1].pc \in {"cache_get", "cache_put"}
        /\ task[m2].pc \in {"lock_get", "lock_put"}

\* C7: the final rows (earlier rows plus new rows) are in strictly ascending
\* order of the full manager identifier, hence in the one order their
\* identifiers determine, whatever order the workers completed in; and the
\* rows are sorted only after every call of the run has completed and been
\* collected.
C7_SortedAfterWorkers ==
    /\ phase \in {"sorted", "done"} =>
          /\ \A i, j \in DOMAIN rows :
                i < j => StrLess(rows[i].manager_code_full,
                                 rows[j].manager_code_full)
          /\ Codes(rows) = Codes(existing_rows) \cup Range(manager_codes)
          /\ Len(rows) = Len(existing_rows) + Len(manager_codes)
    /\ phase = "sorted" =>
          \A m \in Managers : task[m].pc \in {"none", "collected"}
    /\ phase = "processing" => rows = <<>>

\* the pool's calls completed in an order that is not the sorted one
C7_Witness ==
    /\ phase = "sorted"
    /\ workers > 1
    /\ \E i, j \in DOMAIN new_rows :
          i < j /\ StrLess(new_rows[j].manager_code_full,
                           new_rows[i].manager_code_full)

\* C8: each manager task creates and uses its own data-access connection:
\* no Dal object is used by two tasks, and two calls in progress never hold
\* the same one.
C8_OwnConnection ==
    /\ \A c \in Managers : Cardinality(conn_users[c]) <= 1
    /\ \A m1, m2 \in Managers :
          (m1 /= m2 /\ Running(m1) /\ Running(m2)) => task[m1].dal /= task[m2].dal

\* two calls in progress at once, each having queried its connection
C8_Witness ==
    \E m1, m2 \in Managers :
        /\ m1 /= m2
        /\ Running(m1) /\ Running(m2)
        /\ m1 \in conn_users[task[m1].dal]
        /\ m2 \in conn_users[task[m2].dal]

(***************************************************************************)
(* Part II.  Team-KPI aggregator, src/data.py aggregate_team_kpis.         *)
(*                                                                         *)
(* A table is a sequence of rows.  Numbers are integers: KPI values and    *)
(* rates are in hundredths (50.00 is 5000); NULL is a missing value        *)
(* (None / NaN).  Of the 27 rate/score columns, which the loop of lines    *)
(* 86-91 treats alike, the model carries attrition_rate_pct and avg_age;   *)
(* of the sum columns, headcount and exits_rolling_12m.  The text columns  *)
(* (lines 97-101) are left out.                                            *)
(***************************************************************************)
NULL == -1

TeamCodes == <<"A", "B">>
MonthSet  == {1, 2}

\* the (team, month) cells a table can have a row for, in the order
\* load_manager_team_kpis returns them (organization_level_code, month)
Cells == 1..(Len(TeamCodes) * Cardinality(MonthSet))
CellTeam(c)  == TeamCodes[((c - 1) \div Cardinality(MonthSet)) + 1]
CellMonth(c) == ((c - 1) % Cardinality(MonthSet)) + 1

HeadcountVals == {0, 10, 20}
KpiVals       == {NULL, 5000, 8000}
\* a team's (exits_rolling_12m, attrition_rate_pct)
ExitAttrVals  == { <<1, 1000>>, <<0, 500>> }

TeamRow(c, hc, kpi, ea) ==
    [month |-> CellMonth(c),
     organization_level_code |-> CellTeam(c),
     geo_code |-> CellTeam(c),
     headcount |-> hc,
     exits_rolling_12m |-> ea[1],
     attrition_rate_pct |-> ea[2],
     avg_age |-> kpi]

CellRows(c) ==
    {TeamRow(c, hc, kpi, ea) : hc \in HeadcountVals, kpi \in KpiVals,
                               ea \in ExitAttrVals}

RECURSIVE TablesFrom(_, _)
\* the tables with at most n rows, on cells c, c+1, ...
TablesFrom(c, n) ==
    IF c \notin Cells \/ n = 0 THEN {<<>>}
    ELSE TablesFrom(c + 1, n)
         \cup {<<r>> \o t : r \in CellRows(c), t \in TablesFrom(c + 1, n - 1)}

TeamTables == TablesFrom(1, MaxTeamRows)

RECURSIVE SumSeq(_)
SumSeq(s) == IF s = <<>> THEN 0 ELSE s[1] + SumSeq(Tail(s))

\* round(x, ndigits) of the quotient n / d, n >= 0, d > 0, in units of the
\* last kept digit: Python rounds half to even.  (On a tie the code rounds
\* the binary float nearest to n / d; the tables of the model give no tie.)
RoundHalfEven(n, d) ==
    LET q == n \div d
        r == n % d
    IN IF 2 * r < d THEN q
       ELSE IF 2 * r > d THEN q + 1
       ELSE IF q % 2 = 0 THEN q ELSE q + 1

\* grp[c].sum(): missing values are skipped
ColSum(grp, c) ==
    SumSeq([i \in DOMAIN grp |-> IF grp[i][c] = NULL THEN 0 ELSE grp[i][c]])

\* the guard of line 88 left out: an empty sum over the total headcount,
\* and 0 for the division by zero
WeightedAvgNoGuard(grp, c, total_hc) ==
    LET valid == SelectSeq(grp, LAMBDA r : r[c] /= NULL)
    IN IF total_hc = 0 THEN 0
       ELSE RoundHalfEven(
                SumSeq([i \in DOMAIN valid |-> valid[i][c] * valid[i].headcount]),
                total_hc)

\* the division by total_hc left out
WeightedAvgNoDivide(grp, c, total_hc) ==
    LET valid == SelectSeq(grp, LAMBDA r : r[c] /= NULL)
    IN IF Len(valid) = 0 \/ total_hc = 0 THEN NULL
       ELSE SumSeq([i \in DOMAIN valid |-> valid[i][c] * valid[i].headcount])

\* lines 87-91: the headcount-weighted average of column c over a month's
\* rows.  valid drops the rows whose c is missing; the divisor is total_hc,
\* the headcount of all the month's rows.
WeightedAvg(grp, c, total_hc) ==
    LET valid == SelectSeq(grp, LAMBDA r : r[c] /= NULL)
    IN IF Len(valid) = 0 \/ total_hc = 0 THEN NULL
       ELSE RoundHalfEven(
                SumSeq([i \in DOMAIN valid |-> valid[i][c] * valid[i].headcount]),
                total_hc)

RecomputedAttritionRound2(exits, total_hc) ==
    RoundHalfEven(exits * 10000, total_hc)

\* lines 94-95: round(exits * 100.0 / total_hc, 1), in hundredths
RecomputedAttrition(exits, total_hc) ==
    10 * RoundHalfEven(exits * 1000, total_hc)

\* lines 77-103: the aggregate row of one month
AggregateMonth(data, cols, month) ==
    LET grp == SelectSeq(data, LAMBDA r : r.month = month)
        total_hc == ColSum(grp, "headcount")
        exits == IF "exits_rolling_12m" \in cols
                 THEN ColSum(grp, "exits_rolling_12m") ELSE NULL
    IN [month |-> month,
        organization_level_code |-> "ALL",
        geo_code |-> "ALL",
        headcount |-> total_hc,
        exits_rolling_12m |-> exits,
        attrition_rate_pct |->
            IF "exits_rolling_12m" \in cols /\ total_hc > 0
            THEN RecomputedAttrition(exits, total_hc)
            ELSE WeightedAvg(grp, "attrition_rate_pct", total_hc),
        avg_age |-> WeightedAvg(grp, "avg_age", total_hc)]

RECURSIVE AggregateFrom(_, _, _)
\* one row per month of the data, months ascending (lines 77, 107)
AggregateFrom(data, cols, months) ==
    IF months = {} THEN <<>>
    ELSE LET m == CHOOSE x \in months : \A y \in months : x <= y
         IN <<AggregateMonth(data, cols, m)>>
            \o AggregateFrom(data, cols, months \ {m})

aggregate_team_kpis(data, cols) ==
    IF Len(data) = 0 THEN data
    ELSE AggregateFrom(data, cols, {data[i].month : i \in DOMAIN data})

BatchIdle ==
    /\ csv_exists = FALSE
    /\ csv_rows = <<>>
    /\ phase = "idle"
    /\ workers = 1
    /\ use_output = FALSE
    /\ all_manager_codes = <<>>
    /\ existing_rows = <<>>
    /\ manager_codes = <<>>
    /\ new_rows = <<>>
    /\ rows = <<>>
    /\ task = [m \in Managers |-> NoTask]
    /\ domain_cache = {}
    /\ domain_cache_lock = 0
    /\ conn_users = [c \in Managers |-> {}]
    /\ loads = [k \in Keys |-> 0]
    /\ summary = EmptySummary

AggInit ==
    /\ BatchIdle
    /\ RcaIdle
    /\ ExtIdle
    /\ agg_in \in TeamTables
    /\ agg_cols \in SUBSET {"exits_rolling_12m"}
    /\ agg_in_dtype = "object"
    /\ agg_out = <<>>
    /\ agg_again = <<>>
    /\ agg_pc = "input"
    /\ flt_min = 0
    /\ flt_out = <<>>
    /\ flt_raised_min = 0
    /\ flt_raised_out = <<>>

\* lines 73-74 write the columns converted by pd.to_numeric into the table
\* `data` names, making them float64
ToNumericDtype(dtype) == "float64"

\* the conversion written into the caller's table
CallerDtypeAliased(data, dtype) == ToNumericDtype(dtype)

\* lines 51-52 and 72: an empty table is returned before any write; for the
\* others data = data.copy() comes first, so that the writes of lines 73-74
\* go to the copy and the caller's table keeps its dtype
CallerDtype(data, dtype) == dtype

\* the call agg = aggregate_team_kpis(data) on a table as the database
\* returned it (numeric columns of dtype object, holding Decimal values)
Aggregate ==
    /\ agg_pc = "input"
    /\ agg_out' = aggregate_team_kpis(agg_in, agg_cols)
    /\ agg_in_dtype' = IF Len(agg_in) = 0 THEN agg_in_dtype
                       ELSE CallerDtype(agg_in, agg_in_dtype)
    /\ agg_pc' = "done"
    /\ UNCHANGED <<agg_in, agg_cols, agg_again, fltVars, rcaVars, extVars, batchVars>>

\* the call aggregate_team_kpis(agg) on the table the first call returned,
\* which has the columns of the first call's input
Reaggregate ==
    /\ agg_pc = "done"
    /\ agg_again' = aggregate_team_kpis(agg_out, agg_cols)
    /\ agg_pc' = "again"
    /\ UNCHANGED <<agg_in, agg_cols, agg_in_dtype, agg_out, fltVars, rcaVars, extVars, batchVars>>

AggNext == Aggregate \/ Reaggregate
AggSpec == AggInit /\ [][AggNext]_vars

(***************************************************************************)
(* Properties of the aggregator.                                           *)
(***************************************************************************)
\* the input rows of one month
MonthRows(month) == SelectSeq(agg_in, LAMBDA r : r.month = month)

\* the input rows of one month that have a value in column c
ValuedRows(month, c) == SelectSeq(MonthRows(month), LAMBDA r : r[c] /= NULL)

Headcounts(grp) == SumSeq([i \in DOMAIN grp |-> grp[i].headcount])
Weighted(grp, c) == SumSeq([i \in DOMAIN grp |-> grp[i][c] * grp[i].headcount])
Exits(grp) == SumSeq([i \in DOMAIN grp |-> grp[i].exits_rolling_12m])

\* C9: for every month, the aggregate of a rate/score KPI (here avg_age) is
\* sum(value * headcount) / sum(headcount), both sums over the teams whose
\* value is not missing, to two decimals, whenever those teams have
\* headcount; headcounts [10, 20] with values [50, 80] give 70.0.
C9_NonNullWeightedMean ==
    agg_pc = "done" =>
        \A i \in DOMAIN agg_out :
            LET valid == ValuedRows(agg_out[i].month, "avg_age")
            IN Headcounts(valid) > 0 =>
                   agg_out[i].avg_age =
                       RoundHalfEven(Weighted(valid, "avg_age"), Headcounts(valid))

C11_Idempotent ==
    agg_pc = "again" => agg_again = agg_out

\* the output aggregated again had a month of two teams, one without avg_age,
\* and an attrition that was recomputed from the exits
C11_Witness ==
    /\ agg_pc = "again"
    /\ "exits_rolling_12m" \in agg_cols
    /\ \E i \in DOMAIN agg_out :
           /\ Len(MonthRows(agg_out[i].month)) = 2
           /\ Len(ValuedRows(agg_out[i].month, "avg_age")) = 1
           /\ agg_out[i].avg_age /= NULL
           /\ agg_out[i].exits_rolling_12m > 0

\* C12: the aggregate of a rate/score KPI (here avg_age) for a month is null
\* when the month's total headcount is zero or when no team has a value for
\* that KPI; with a total headcount of zero the attrition rate is null too.
C12_NullWhenUndefined ==
    agg_pc = "done" =>
        \A i \in DOMAIN agg_out :
            LET grp == MonthRows(agg_out[i].month)
            IN /\ (Headcounts(grp) = 0 \/ Len(ValuedRows(agg_out[i].month, "avg_age")) = 0)
                      => agg_out[i].avg_age = NULL
               /\ Headcounts(grp) = 0 => agg_out[i].attrition_rate_pct = NULL

\* one month without headcount whose team has a value, and one month with
\* headcount whose team has none
C12_Witness ==
    /\ agg_pc = "done"
    /\ \E i, j \in DOMAIN agg_out :
           /\ Headcounts(MonthRows(agg_out[i].month)) = 0
           /\ Len(ValuedRows(agg_out[i].month, "avg_age")) > 0
           /\ Headcounts(MonthRows(agg_out[j].month)) > 0
           /\ Len(ValuedRows(agg_out[j].month, "avg_age")) = 0

\* C13: aggregate_team_kpis returns exactly one row per distinct month of
\* its input, every row labelled organization_level_code = geo_code = "ALL",
\* the months ascending, and leaves the caller's table as it was.
C13_OneRowPerMonth ==
    agg_pc = "done" =>
        /\ {agg_out[i].month : i \in DOMAIN agg_out}
               = {agg_in[i].month : i \in DOMAIN agg_in}
        /\ \A i, j \in DOMAIN agg_out : i < j => agg_out[i].month < agg_out[j].month
        /\ \A i \in DOMAIN agg_out :
               /\ agg_out[i].organization_level_code = "ALL"
               /\ agg_out[i].geo_code = "ALL"
        /\ agg_in_dtype = "object"

\* a table of three rows over two months, the later month first
C13_Witness ==
    /\ agg_pc = "done"
    /\ Len(agg_in) = 3
    /\ Len(agg_out) = 2
    /\ agg_in[1].month > agg_in[2].month

(***************************************************************************)
(* Part III.  Team-size filter, src/data.py apply_team_size_filter.        *)
(*                                                                         *)
(* Its rows carry the display column team_label.  Labels are compared as   *)
(* Python compares str, so a label is the sequence of its character codes. *)
(***************************************************************************)
MIN_TEAM_HEADCOUNT == 5

\* the characters of an organization_level_code / geo_code
Chars(code) ==
    CASE code = "A" -> <<65>>
      [] code = "B" -> <<66>>
      [] code = "ALL" -> <<65, 76, 76>>

\* organization_level_code + " · " + geo_code (lines 153-155)
TeamLabel(r) ==
    Chars(r.organization_level_code) \o <<32, 183, 32>> \o Chars(r.geo_code)

AllLabel == Chars("ALL")

WithLabel(r, label) == r @@ [team_label |-> label]

\* data["month"].max() (line 140)
LatestMonth(data) ==
    CHOOSE m \in {data[i].month : i \in DOMAIN data} :
        \A i \in DOMAIN data : data[i].month <= m

\* the comparison inverted: headcount <= min_headcount
QualifyingInverted(data, min_headcount) ==
    {<<data[i].organization_level_code, data[i].geo_code>> :
        i \in {j \in DOMAIN data : /\ data[j].month = LatestMonth(data)
                                   /\ data[j].headcount <= min_headcount}}

\* headcount > min_headcount instead of >=
QualifyingStrict(data, min_headcount) ==
    {<<data[i].organization_level_code, data[i].geo_code>> :
        i \in {j \in DOMAIN data : /\ data[j].month = LatestMonth(data)
                                   /\ data[j].headcount > min_headcount}}

\* lines 141-144: the teams of the latest month with enough headcount
Qualifying(data, min_headcount) ==
    {<<data[i].organization_level_code, data[i].geo_code>> :
        i \in {j \in DOMAIN data : /\ data[j].month = LatestMonth(data)
                                   /\ data[j].headcount >= min_headcount}}

\* order of sort_values(["team_label", "organization_level_code",
\* "geo_code", "month"]) (lines 160-161)
FilterKeyLeq(a, b) ==
    \/ StrLess(a.team_label, b.team_label)
    \/ /\ a.team_label = b.team_label
       /\ \/ StrLess(Chars(a.organization_level_code), Chars(b.organization_level_code))
          \/ /\ a.organization_level_code = b.organization_level_code
             /\ \/ StrLess(Chars(a.geo_code), Chars(b.geo_code))
                \/ /\ a.geo_code = b.geo_code
                   /\ a.month <= b.month

RECURSIVE InsertFilterRow(_, _)
InsertFilterRow(r, s) ==
    IF s = <<>> THEN <<r>>
    ELSE IF FilterKeyLeq(r, s[1]) THEN <<r>> \o s
         ELSE <<s[1]>> \o InsertFilterRow(r, Tail(s))

RECURSIVE SortFilterRowsFrom(_, _)
SortFilterRowsFrom(s, n) ==
    IF n > Len(s) THEN <<>>
    ELSE InsertFilterRow(s[n], SortFilterRowsFrom(s, n + 1))

\* lines 150-152: data.merge(qualifying, how="inner"), every month of the
\* qualifying teams
TeamHistory(data, qualifying) ==
    SelectSeq(data, LAMBDA r :
        <<r.organization_level_code, r.geo_code>> \in qualifying)

apply_team_size_filter(data, cols, min_headcount) ==
    IF Len(data) = 0 THEN data
    ELSE LET aggregated == aggregate_team_kpis(data, cols)
             agg == [i \in DOMAIN aggregated |-> WithLabel(aggregated[i], AllLabel)]
             qualifying == Qualifying(data, min_headcount)
             history == TeamHistory(data, qualifying)
             team_data == [i \in DOMAIN history |->
                              WithLabel(history[i], TeamLabel(history[i]))]
         IN IF qualifying = {} THEN agg
            ELSE SortFilterRowsFrom(agg \o team_data, 1)

\* the thresholds tried: none, the default, and values at and around the
\* headcounts of the tables
MinHeadcounts == {0, MIN_TEAM_HEADCOUNT, 10, 11, 21}

\* the tables of the filter runs: the team KPIs all the same, the headcounts
\* and the months varying
FilterTables ==
    {t \in TeamTables :
        \A i \in DOMAIN t : t[i].avg_age = 5000 /\ t[i].exits_rolling_12m = 0}

FilterInit ==
    /\ BatchIdle
    /\ RcaIdle
    /\ ExtIdle
    /\ agg_in \in FilterTables
    /\ agg_cols = {"exits_rolling_12m"}
    /\ agg_in_dtype = "object"
    /\ agg_out = <<>>
    /\ agg_again = <<>>
    /\ agg_pc = "input"
    /\ flt_min = 0
    /\ flt_out = <<>>
    /\ flt_raised_min = 0
    /\ flt_raised_out = <<>>

\* the call apply_team_size_filter(data, min_headcount)
ApplyFilter(min_headcount) ==
    /\ agg_pc = "input"
    /\ flt_min' = min_headcount
    /\ flt_out' = apply_team_size_filter(agg_in, agg_cols, min_headcount)
    /\ agg_pc' = "filtered"
    /\ UNCHANGED <<agg_in, agg_cols, agg_in_dtype, agg_out, agg_again,
                   flt_raised_min, flt_raised_out, rcaVars, extVars, batchVars>>

\* a second call on the same table with a threshold that is not lower
ApplyFilterRaised(min_headcount) ==
    /\ agg_pc = "filtered"
    /\ min_headcount >= flt_min
    /\ flt_raised_min' = min_headcount
    /\ flt_raised_out' = apply_team_size_filter(agg_in, agg_cols, min_headcount)
    /\ agg_pc' = "raised"
    /\ UNCHANGED <<agg_in, agg_cols, agg_in_dtype, agg_out, agg_again,
                   flt_min, flt_out, rcaVars, extVars, batchVars>>

FilterNext ==
    \/ \E min_headcount \in MinHeadcounts : ApplyFilter(min_headcount)
    \/ \E min_headcount \in MinHeadcounts : ApplyFilterRaised(min_headcount)

FilterSpec == FilterInit /\ [][FilterNext]_vars

(***************************************************************************)
(* Properties of the team-size filter.                                     *)
(***************************************************************************)
TeamOf(r) == <<r.organization_level_code, r.geo_code>>

\* the teams of a table
TeamsOf(data) == {TeamOf(data[i]) : i \in DOMAIN data}

\* the rows of a filter result that are not aggregate rows
IndividualRows(out) == SelectSeq(out, LAMBDA r : r.team_label /= AllLabel)

\* the teams a filter result shows individually
ShownTeams(out) == TeamsOf(IndividualRows(out))

\* the months a team has rows for in a table
TeamMonths(data, team) ==
    {data[i].month : i \in {j \in DOMAIN data : TeamOf(data[j]) = team}}

\* the team has, in the latest month of the table, a headcount of at least n
LargeInLatestMonth(data, team, n) ==
    \E i \in DOMAIN data :
        /\ TeamOf(data[i]) = team
        /\ \A j \in DOMAIN data : data[j].month <= data[i].month
        /\ data[i].headcount >= n

\* C14: a team is shown individually if and only if its headcount in the
\* most recent month of the input is at least min_headcount; a team that is
\* shown has one row for each of its months, with the input's values, and a
\* team that is not shown has none.
C14_ShownIffLargeInLatestMonth ==
    agg_pc = "filtered" =>
        \A team \in TeamsOf(agg_in) :
            LET shown == IndividualRows(flt_out)
            IN IF LargeInLatestMonth(agg_in, team, flt_min)
               THEN /\ TeamMonths(shown, team) = TeamMonths(agg_in, team)
                    /\ \A i \in DOMAIN agg_in :
                          TeamOf(agg_in[i]) = team =>
                              Cardinality({j \in DOMAIN shown :
                                  shown[j] = WithLabel(agg_in[i], TeamLabel(agg_in[i]))}) = 1
               ELSE TeamMonths(shown, team) = {}

\* a team at the threshold exactly, shown with an earlier month in which it
\* was smaller, next to a team below the threshold
C14_Witness ==
    /\ agg_pc = "filtered"
    /\ \E i, j, k \in DOMAIN agg_in :
           /\ TeamOf(agg_in[i]) = TeamOf(agg_in[j])
           /\ agg_in[i].month < agg_in[j].month
           /\ agg_in[i].headcount < flt_min
           /\ agg_in[j].headcount = flt_min
           /\ TeamOf(agg_in[k]) /= TeamOf(agg_in[i])
           /\ agg_in[k].month = agg_in[j].month
           /\ agg_in[k].headcount < flt_min
    /\ Len(IndividualRows(flt_out)) = 2

\* C15: for every input table with rows and every threshold, the output has
\* the aggregate rows, labelled "ALL", one per month, and they come before
\* every individual team row; the individual rows are in the order of their
\* team labels and, within a team, of their months.
C15_AggregateFirst ==
    (agg_pc = "filtered" /\ Len(agg_in) > 0) =>
        /\ {flt_out[i].month : i \in {j \in DOMAIN flt_out : flt_out[j].team_label = AllLabel}}
               = {agg_in[i].month : i \in DOMAIN agg_in}
        /\ \A i, j \in DOMAIN flt_out :
               (flt_out[i].team_label = AllLabel /\ flt_out[j].team_label /= AllLabel)
                   => i < j
        /\ \A i, j \in DOMAIN flt_out :
               (i < j /\ flt_out[i].team_label /= AllLabel
                      /\ flt_out[j].team_label /= AllLabel)
                   => FilterKeyLeq(flt_out[i], flt_out[j])

\* C16: for thresholds a <= b, the teams shown individually with
\* min_headcount = b are among the teams shown with min_headcount = a; the
\* aggregate rows are there with both.
C16_Monotone ==
    agg_pc = "raised" =>
        /\ ShownTeams(flt_raised_out) \subseteq ShownTeams(flt_out)
        /\ SelectSeq(flt_raised_out, LAMBDA r : r.team_label = AllLabel)
               = SelectSeq(flt_out, LAMBDA r : r.team_label = AllLabel)
        /\ Len(agg_in) > 0 =>
               \E i \in DOMAIN flt_raised_out : flt_raised_out[i].team_label = AllLabel

\* raising the threshold from 10 to 11 hid one of two teams
C16_Witness ==
    /\ agg_pc = "raised"
    /\ flt_min < flt_raised_min
    /\ Cardinality(ShownTeams(flt_out)) = 2
    /\ Cardinality(ShownTeams(flt_raised_out)) = 1

(***************************************************************************)
(* Part IV.  RCA preparation and run, src/data.py prepare_rca_data and     *)
(* run_correlation.                                                        *)
(*                                                                         *)
(* A domain row is (source, kpi_code, kpi_facts_date, kpi_value); a date   *)
(* is <<month, day>>, and its first-of-month normalisation is the month.   *)
(* RootCauseAnalysis is a library outside the repository: its call either  *)
(* raises or returns a frame of (effect, cause) pairs.                     *)
(***************************************************************************)
MinObservations == 7

\* the characters of a kpi_code
KpiChars(code) ==
    CASE code = "K1" -> <<75, 49>>
      [] code = "K2" -> <<75, 50>>
      [] code = "K3" -> <<75, 51>>

\* n monthly rows of one KPI code, the first `nulls` of them without a
\* value, and, with dup, a second row in the first month
DomainSeries(source, code, n, nulls, dup) ==
    [i \in 1..n |-> [source |-> source, kpi_code |-> code,
                     kpi_facts_date |-> <<i, 1>>,
                     kpi_value |-> IF i <= nulls THEN NULL ELSE 100 + i]]
    \o (IF dup THEN <<[source |-> source, kpi_code |-> code,
                       kpi_facts_date |-> <<1, 15>>, kpi_value |-> 999]>>
        ELSE <<>>)

\* <<n, nulls, dup>>: no rows; enough months; enough months, all without a
\* value; one month too few; enough months with a gap and a duplicate
SeriesShapes ==
    { <<0, 0, FALSE>>,
      <<MinObservations, 0, FALSE>>,
      <<MinObservations, MinObservations, FALSE>>,
      <<MinObservations - 1, 0, FALSE>>,
      <<MinObservations, 1, TRUE>> }

DomainTables ==
    {DomainSeries("bu_aggregate", "K2", b2[1], b2[2], b2[3])
        \o DomainSeries("bu_aggregate", "K1", b1[1], b1[2], b1[3])
        \o DomainSeries("country_org", "K3", c[1], c[2], c[3])
        \o DomainSeries("domain", "K1", d[1], d[2], d[3]) :
     b1 \in SeriesShapes,
     b2 \in {<<0, 0, FALSE>>, <<MinObservations, 0, FALSE>>},
     c \in {<<0, 0, FALSE>>, <<MinObservations, 0, FALSE>>},
     d \in SeriesShapes}

\* a one-team PPL table of n months, the first `nulls` without avg_age
PplSeriesTable(n, nulls) ==
    [m \in 1..n |-> [month |-> m,
                     organization_level_code |-> "A",
                     geo_code |-> "A",
                     headcount |-> 10,
                     exits_rolling_12m |-> 1,
                     attrition_rate_pct |-> 1000,
                     avg_age |-> IF m <= nulls THEN NULL ELSE 5000]]

PplSeriesTables ==
    {PplSeriesTable(n, nulls) : n \in 0..MaxSeriesLen, nulls \in 0..MaxSeriesLen}

\* A date is <<month, day>>.
\* the date kept as it is, without the truncation to the month
ToMonthStartKeepDay(d) == d

\* dt.to_period("M").dt.to_timestamp() (lines 747 and 767): the first day
\* of the date's month
ToMonthStart(d) == <<d[1], 1>>

\* d1 <= d2 for dates
DateLeq(d1, d2) == d1[1] < d2[1] \/ (d1[1] = d2[1] /\ d1[2] <= d2[2])

\* order of sort_values(["id_kpi_code", "date_col"]) (line 754)
MotherKeyLeq(a, b) ==
    \/ StrLess(KpiChars(a.id_kpi_code), KpiChars(b.id_kpi_code))
    \/ a.id_kpi_code = b.id_kpi_code /\ DateLeq(a.date_col, b.date_col)

RECURSIVE InsertMotherRow(_, _)
InsertMotherRow(r, s) ==
    IF s = <<>> THEN <<r>>
    ELSE IF MotherKeyLeq(r, s[1]) THEN <<r>> \o s
         ELSE <<s[1]>> \o InsertMotherRow(r, Tail(s))

RECURSIVE SortMotherFrom(_, _)
SortMotherFrom(s, n) ==
    IF n > Len(s) THEN <<>>
    ELSE InsertMotherRow(s[n], SortMotherFrom(s, n + 1))

\* drop_duplicates(subset=["id_kpi_code", "date_col"]): the first row of
\* each (code, date) is kept (line 753)
RECURSIVE DropDuplicatesFrom(_, _)
DropDuplicatesFrom(s, n) ==
    IF n > Len(s) THEN <<>>
    ELSE IF \E j \in 1..(n - 1) : /\ s[j].id_kpi_code = s[n].id_kpi_code
                                  /\ s[j].date_col = s[n].date_col
         THEN DropDuplicatesFrom(s, n + 1)
         ELSE <<s[n]>> \o DropDuplicatesFrom(s, n + 1)

\* lines 739-741, with the fallback to the rows tagged domain left out
EffectRowsNoFallback(domain_df) ==
    SelectSeq(domain_df, LAMBDA r : r.source = "bu_aggregate")

\* lines 739-741: the rows tagged bu_aggregate, or, when there is none, the
\* rows tagged domain
EffectRows(domain_df) ==
    LET bu_agg == SelectSeq(domain_df, LAMBDA r : r.source = "bu_aggregate")
    IN IF Len(bu_agg) = 0
       THEN SelectSeq(domain_df, LAMBDA r : r.source = "domain")
       ELSE bu_agg

\* lines 748-759
MotherTable(bu_agg) ==
    LET renamed == [i \in DOMAIN bu_agg |->
                       [id_kpi_code |-> bu_agg[i].kpi_code,
                        date_col |-> ToMonthStart(bu_agg[i].kpi_facts_date),
                        value_col |-> bu_agg[i].kpi_value,
                        id_all |-> "ALL"]]
        valued == SelectSeq(renamed, LAMBDA r : r.value_col /= NULL)
    IN SortMotherFrom(DropDuplicatesFrom(valued, 1), 1)

\* lines 775-781 and 786: the series of one column of the aggregate
NodeTable(agg, kpi_col) ==
    LET valued == SelectSeq(agg, LAMBDA r : r[kpi_col] /= NULL)
    IN [i \in DOMAIN valued |-> [date_col |-> ToMonthStart(<<valued[i].month, 1>>),
                                 value_col |-> valued[i][kpi_col],
                                 id_all |-> "ALL"]]

\* the test of line 783 with <= for <
TooShortOffByOne(node_df) == Len(node_df) <= MinObservations

\* line 783
TooShort(node_df) == Len(node_df) < MinObservations

prepare_rca_data(ppl_data, domain_df) ==
    LET bu_agg == EffectRows(domain_df)
        agg == aggregate_team_kpis(ppl_data, {"exits_rolling_12m"})
        node_tables == {c \in PplCols : ~TooShort(NodeTable(agg, c))}
    IN IF Len(bu_agg) = 0 THEN NothingPrepared
       ELSE IF Len(agg) = 0 THEN NothingPrepared
       ELSE [node_tables |-> node_tables,
             keys |-> {"mns"} \cup node_tables,
             mns |-> MotherTable(bu_agg),
             node |-> [c \in PplCols |->
                          IF c \in node_tables THEN NodeTable(agg, c) ELSE <<>>]]

\* What rca_calculation can return for a df_dict: no pair, or every
\* (effect code, cause) pair of the tables, effect codes descending.  A row
\* is (id_kpi_code, kpi, min_p_value, explained_entropy), the last two in
\* hundredths.
EnginePValue(kpi) == IF kpi = "avg_age" THEN 1 ELSE 3

EngineEntropy(kpi) ==
    CASE kpi = "headcount" -> 20
      [] kpi = "avg_age" -> 10
      [] kpi = "attrition_rate_pct" -> 50

EnginePairs(df_dict) ==
    LET codes == SelectSeq(<<"K2", "K1">>, LAMBDA c :
                     \E i \in DOMAIN df_dict.mns : df_dict.mns[i].id_kpi_code = c)
        kpis == SelectSeq(<<"headcount", "avg_age", "attrition_rate_pct">>,
                          LAMBDA k : k \in df_dict.node_tables)
    IN [n \in 1..(Len(codes) * Len(kpis)) |->
           LET code == codes[((n - 1) \div Len(kpis)) + 1]
               kpi == kpis[((n - 1) % Len(kpis)) + 1]
           IN [id_kpi_code |-> code, kpi |-> kpi,
               min_p_value |-> EnginePValue(kpi),
               explained_entropy |-> EngineEntropy(kpi)]]

EngineFrames(df_dict) == {<<>>, EnginePairs(df_dict)}

\* the order of line 853 with explained_entropy ascending as well
ResultKeyLeqAllAscending(a, b) ==
    \/ StrLess(KpiChars(a.id_kpi_code), KpiChars(b.id_kpi_code))
    \/ /\ a.id_kpi_code = b.id_kpi_code
       /\ \/ a.min_p_value < b.min_p_value
          \/ /\ a.min_p_value = b.min_p_value
             /\ a.explained_entropy <= b.explained_entropy

\* order of sort_values(["id_kpi_code", "min_p_value", "explained_entropy"],
\* ascending=[True, True, False]) (lines 853-854)
ResultKeyLeq(a, b) ==
    \/ StrLess(KpiChars(a.id_kpi_code), KpiChars(b.id_kpi_code))
    \/ /\ a.id_kpi_code = b.id_kpi_code
       /\ \/ a.min_p_value < b.min_p_value
          \/ /\ a.min_p_value = b.min_p_value
             /\ a.explained_entropy >= b.explained_entropy

RECURSIVE InsertResultRow(_, _)
InsertResultRow(r, s) ==
    IF s = <<>> THEN <<r>>
    ELSE IF ResultKeyLeq(r, s[1]) THEN <<r>> \o s
         ELSE <<s[1]>> \o InsertResultRow(r, Tail(s))

RECURSIVE SortResultFrom(_, _)
SortResultFrom(s, n) ==
    IF n > Len(s) THEN <<>>
    ELSE InsertResultRow(s[n], SortResultFrom(s, n + 1))

RcaInit ==
    /\ BatchIdle
    /\ ExtIdle
    /\ agg_in = <<>>
    /\ agg_cols = {}
    /\ agg_in_dtype = "object"
    /\ agg_out = <<>>
    /\ agg_again = <<>>
    /\ agg_pc = "off"
    /\ flt_min = 0
    /\ flt_out = <<>>
    /\ flt_raised_min = 0
    /\ flt_raised_out = <<>>
    /\ rca_ppl \in PplSeriesTables
    /\ rca_domain \in DomainTables
    /\ rca_prepared = NothingPrepared
    /\ rca_engine_input = [called |-> FALSE, df_dict |-> NothingPrepared]
    /\ rca_result = <<>>
    /\ rca_pc = "input"

rcaFrame == <<batchVars, agg_in, agg_cols, agg_in_dtype, agg_out, agg_again,
              agg_pc, fltVars, extVars, rca_ppl, rca_domain>>

\* run_correlation, line 836: config, df_dict = prepare_rca_data(...)
Prepare ==
    /\ rca_pc = "input"
    /\ rca_prepared' = prepare_rca_data(rca_ppl, rca_domain)
    /\ rca_pc' = "prepared"
    /\ UNCHANGED <<rcaFrame, rca_engine_input, rca_result>>

\* the guard of line 838 left out: the engine is called in any case
NoNodeTablesNever(config) == FALSE

\* line 838: not config["node_tables"]
NoNodeTables(config) == config.node_tables = {}

\* lines 838-840: nothing eligible, an empty frame is returned
ReturnEmpty ==
    /\ rca_pc = "prepared"
    /\ NoNodeTables(rca_prepared)
    /\ rca_result' = <<>>
    /\ rca_pc' = "returned"
    /\ UNCHANGED <<rcaFrame, rca_prepared, rca_engine_input>>

\* lines 846-861: the engine is built and called with df_dict; what it
\* raises leaves run_correlation, what it returns is sorted and returned
CallEngine ==
    /\ rca_pc = "prepared"
    /\ ~NoNodeTables(rca_prepared)
    /\ rca_engine_input' = [called |-> TRUE, df_dict |-> rca_prepared]
    /\ \/ /\ rca_pc' = "raised"
          /\ rca_result' = rca_result
       \/ \E result \in EngineFrames(rca_prepared) :
             /\ rca_result' = IF Len(result) > 0 THEN SortResultFrom(result, 1)
                              ELSE result
             /\ rca_pc' = "returned"
    /\ UNCHANGED <<rcaFrame, rca_prepared>>

RcaNext == Prepare \/ ReturnEmpty \/ CallEngine
RcaSpec == RcaInit /\ [][RcaNext]_vars

(***************************************************************************)
(* Properties of the RCA preparation and run.                              *)
(***************************************************************************)
\* the rows of domain_df with a tag
Tagged(source) == SelectSeq(rca_domain, LAMBDA r : r.source = source)

\* the tag the effect series are to be taken from
EffectTag == IF Len(Tagged("bu_aggregate")) > 0 THEN "bu_aggregate" ELSE "domain"

\* the number of months in which the PPL table has a value for a column
\* (one team with headcount: its value is the aggregate's)
Observations(kpi_col) ==
    Cardinality({i \in DOMAIN rca_ppl : rca_ppl[i][kpi_col] /= NULL})

\* the number of rows a table has for an effect KPI code
CodeObservations(mns, code) ==
    Cardinality({i \in DOMAIN mns : mns[i].id_kpi_code = code})

\* C17: the effect (mother) table is built from the rows tagged
\* bu_aggregate whenever there is one, from the rows tagged domain only when
\* there is none, and never from rows tagged country_org: each of its rows
\* is a valued row of that tag, and, when there are PPL rows, each valued
\* row of that tag has its (code, month) in it.
C17_EffectRowsPreferBuAggregate ==
    rca_pc /= "input" =>
        /\ \A i \in DOMAIN rca_prepared.mns :
               \E j \in DOMAIN rca_domain :
                   /\ rca_domain[j].source = EffectTag
                   /\ rca_domain[j].kpi_code = rca_prepared.mns[i].id_kpi_code
                   /\ rca_domain[j].kpi_facts_date[1] = rca_prepared.mns[i].date_col[1]
                   /\ rca_domain[j].kpi_value = rca_prepared.mns[i].value_col
        /\ \A j \in DOMAIN rca_domain :
               (/\ Len(rca_ppl) > 0
                /\ rca_domain[j].source = EffectTag
                /\ rca_domain[j].kpi_value /= NULL) =>
                   \E i \in DOMAIN rca_prepared.mns :
                       /\ rca_prepared.mns[i].id_kpi_code = rca_domain[j].kpi_code
                       /\ rca_prepared.mns[i].date_col[1] = rca_domain[j].kpi_facts_date[1]

\* there are rows of all three tags, those tagged domain being more than
\* those tagged bu_aggregate, and the mother table has the latter
C17_Witness ==
    /\ rca_pc = "prepared"
    /\ Len(Tagged("country_org")) > 0
    /\ Len(Tagged("domain")) > Len(Tagged("bu_aggregate"))
    /\ Len(rca_prepared.mns) = Len(Tagged("bu_aggregate"))
    /\ Len(rca_prepared.mns) > 0

\* C18: a cause series is passed to the RCA engine if and only if it has at
\* least 7 months with a value: when there are effect rows and PPL rows, the
\* node tables are the columns with 7 or more, and the engine is called with
\* exactly those, each with all its observations.
C18_CauseNeedsSevenObservations ==
    /\ (rca_pc /= "input" /\ Len(Tagged(EffectTag)) > 0 /\ Len(rca_ppl) > 0) =>
           rca_prepared.node_tables = {c \in PplCols : Observations(c) >= 7}
    /\ rca_engine_input.called =>
           \A c \in PplCols :
               /\ c \in rca_engine_input.df_dict.keys <=> Observations(c) >= 7
               /\ c \in rca_engine_input.df_dict.keys =>
                      Len(rca_engine_input.df_dict.node[c]) = Observations(c)

\* the engine was called with a series of exactly 7 observations and
\* without one of exactly 6
C18_Witness ==
    /\ rca_engine_input.called
    /\ Observations("headcount") = 7
    /\ Observations("avg_age") = 6
    /\ "headcount" \in rca_engine_input.df_dict.keys
    /\ "avg_age" \notin rca_engine_input.df_dict.keys

\* C19: every series the engine is called with, the series of each effect
\* KPI code of the mother table and each cause series, has at least 7
\* observations.
C19_EverySeriesLongEnough ==
    rca_engine_input.called =>
        /\ \A i \in DOMAIN rca_engine_input.df_dict.mns :
               CodeObservations(rca_engine_input.df_dict.mns,
                                rca_engine_input.df_dict.mns[i].id_kpi_code) >= 7
        /\ \A c \in rca_engine_input.df_dict.node_tables :
               Len(rca_engine_input.df_dict.node[c]) >= 7

\* C20: when the effect table is empty after cleaning, or no cause table is
\* left, run_correlation does not call the engine and does not raise; it
\* returns an empty frame.
C20_EmptyTableReturnsEmpty ==
    (rca_pc /= "input"
        /\ (Len(rca_prepared.mns) = 0 \/ rca_prepared.node_tables = {})) =>
        /\ ~rca_engine_input.called
        /\ rca_pc /= "raised"
        /\ rca_pc = "returned" => rca_result = <<>>

\* C21: when no cause table is eligible (no PPL rows, or every PPL KPI
\* series has fewer than 7 observations), run_correlation never calls the
\* engine, does not raise, and what it returns is an empty frame.
C21_NoEligibleCauseReturnsEmpty ==
    (\A c \in PplCols : Observations(c) < 7) =>
        /\ ~rca_engine_input.called
        /\ rca_pc /= "raised"
        /\ rca_pc = "returned" => rca_result = <<>>

\* there are effect observations and six PPL months, and run_correlation
\* has returned
C21_Witness ==
    /\ rca_pc = "returned"
    /\ Len(rca_ppl) = 6
    /\ Len(rca_prepared.mns) >= 7
    /\ ~rca_engine_input.called
    /\ rca_result = <<>>

\* C22: the rows run_correlation returns are those the engine returned,
\* ordered by effect KPI code ascending, then p-value ascending, then
\* explained entropy descending.
C22_ResultOrder ==
    rca_pc = "returned" =>
        /\ \A i, j \in DOMAIN rca_result :
               i < j =>
                   LET a == rca_result[i]
                       b == rca_result[j]
                   IN \/ StrLess(KpiChars(a.id_kpi_code), KpiChars(b.id_kpi_code))
                      \/ /\ a.id_kpi_code = b.id_kpi_code
                         /\ a.min_p_value <= b.min_p_value
                         /\ a.min_p_value = b.min_p_value =>
                                a.explained_entropy >= b.explained_entropy
        /\ rca_engine_input.called =>
               \/ rca_result = <<>>
               \/ /\ Len(rca_result) = Len(EnginePairs(rca_engine_input.df_dict))
                  /\ {rca_result[i] : i \in DOMAIN rca_result}
                         = {EnginePairs(rca_engine_input.df_dict)[i] :
                                i \in DOMAIN rca_result}

\* two effect codes and three causes were returned: the first code's rows
\* come first, and among its rows the smallest p-value, then, of two equal
\* p-values, the larger entropy
C22_Witness ==
    /\ rca_pc = "returned"
    /\ Len(rca_result) = 6
    /\ rca_result[1].id_kpi_code = "K1"
    /\ rca_result[4].id_kpi_code = "K2"
    /\ rca_result[1].min_p_value < rca_result[2].min_p_value
    /\ rca_result[2].min_p_value = rca_result[3].min_p_value
    /\ rca_result[2].explained_entropy > rca_result[3].explained_entropy

\* C25: every table prepare_rca_data returns is well formed: each date is
\* the first of a month, no value is null, the mother table has at most one
\* row per (kpi_code, month), a cause table at most one row per month, and
\* the rows of a series are in the order of their dates.
C25_TablesWellFormed ==
    rca_pc /= "input" =>
        /\ \A i \in DOMAIN rca_prepared.mns :
               /\ rca_prepared.mns[i].date_col[2] = 1
               /\ rca_prepared.mns[i].value_col /= NULL
        /\ \A i, j \in DOMAIN rca_prepared.mns :
               (i < j /\ rca_prepared.mns[i].id_kpi_code
                             = rca_prepared.mns[j].id_kpi_code) =>
                   rca_prepared.mns[i].date_col[1] < rca_prepared.mns[j].date_col[1]
        /\ \A c \in PplCols :
               /\ \A i \in DOMAIN rca_prepared.node[c] :
                      /\ rca_prepared.node[c][i].date_col[2] = 1
                      /\ rca_prepared.node[c][i].value_col /= NULL
               /\ \A i, j \in DOMAIN rca_prepared.node[c] :
                      i < j => rca_prepared.node[c][i].date_col[1]
                                   < rca_prepared.node[c][j].date_col[1]

\* the effect rows had a null value and two dates in one month, the PPL
\* table a month without avg_age, and tables were prepared from both
C25_Witness ==
    /\ rca_pc = "prepared"
    /\ \E i, j \in DOMAIN rca_domain :
           /\ i /= j
           /\ rca_domain[i].source = EffectTag
           /\ rca_domain[j].source = EffectTag
           /\ rca_domain[i].kpi_code = rca_domain[j].kpi_code
           /\ rca_domain[i].kpi_facts_date[1] = rca_domain[j].kpi_facts_date[1]
           /\ rca_domain[i].kpi_value = NULL
    /\ Len(rca_prepared.mns) >= 7
    /\ "avg_age" \in rca_prepared.node_tables
    /\ Observations("avg_age") < Len(rca_ppl)

(***************************************************************************)
(* Properties of the rows of _process_one_manager.                         *)
(***************************************************************************)
\* the counts of a row agree with one another, and are all 0 unless the
\* status is "ok"
CountsConsistent(o) ==
    /\ o.n_star1 + o.n_star2 + o.n_star3 = o.n_correlations
    /\ o.has_causal_insights = (o.n_correlations > 0)
    /\ o.status /= "ok" =>
           /\ o.n_star1 = 0
           /\ o.n_star2 = 0
           /\ o.n_star3 = 0
           /\ o.n_correlations = 0
           /\ ~o.has_causal_insights

\* C29: every row _process_one_manager returns has
\* n_star1 + n_star2 + n_star3 = n_correlations and has_causal_insights =
\* (n_correlations > 0); with a status other than ok the four counts are 0
\* and has_causal_insights is false.
C29_CountsAddUp ==
    /\ \A m \in Managers : task[m].pc = "done" => CountsConsistent(task[m].out)
    /\ \A i \in DOMAIN new_rows : CountsConsistent(new_rows[i])

\* a call returned the counts of a frame of four pairs, one of them with
\* an undefined explained entropy, and another call ended without an RCA
C29_Witness ==
    \E m1, m2 \in Managers :
        /\ task[m1].pc = "done"
        /\ task[m1].out.status = "ok"
        /\ task[m1].out.n_correlations = 4
        /\ task[m1].out.n_star1 = 2
        /\ task[m1].out.n_star2 = 1
        /\ task[m1].out.n_star3 = 1
        /\ task[m2].pc = "done"
        /\ task[m2].out.status \notin {"ok", "error"}

(***************************************************************************)
(* Part V.  The interactive console, main.py: _run_interactive and the     *)
(* functions it calls.  A frame or a list is a record that tells whether   *)
(* it is there (not None) and what it was loaded for.  The connection      *)
(* (dal, _ensure_dal) is left out.                                         *)
(***************************************************************************)
\* the employee codes typed or found: two managers and a code that
\* manager_profile.sql does not find
ConsoleCodes == {"m1", "m2", "mx"}

\* get_manager_profile (data.py, lines 354-434): None when the manager is
\* not found; the kpi_mapping is the suggestion, "" when there is none
ConsoleProfile(manager_code) ==
    CASE manager_code = "m1" ->
             [found |-> TRUE, employee_code |-> "m1", kpi_mapping |-> "MSLT_VACCINES"]
      [] manager_code = "m2" ->
             [found |-> TRUE, employee_code |-> "m2", kpi_mapping |-> ""]
      [] OTHER -> NoProfileDict

\* what _interactive_find returns: None (bad filters, no candidate), here
\* <<>>, or the employee codes of the frame
FindResults == {<<>>, <<"m1">>, <<"m2", "m1">>, <<"mx", "m2">>}

\* rest of select, or the number typed as the command
SelectArgs == {"", "0", "1", "2"}
IsDigit(str) == str \in {"0", "1", "2", "9"}
ToInt(str) ==
    CASE str = "0" -> 0
      [] str = "1" -> 1
      [] str = "2" -> 2
      [] str = "9" -> 9

\* rest.strip().upper() of set-kpi
SetKpiArgs == {"", "MSLT_VACCINES", "MSLT_GENERAL_MEDICINE", "X"}

\* rest of kpis
KpisArgs == {"", "--all", "0", "9"}

\* rest of correlate: nothing, or options argparse rejects
CorrelateArgs == {"", "--lag x"}

\* resolve_business_unit (data.py, lines 563-583): the fallback for a code
\* that is not in _KPI_MAPPING_BU gives "X" for "X"
resolve_business_unit(kpi_mapping) ==
    CASE kpi_mapping = "MSLT_GENERAL_MEDICINE" -> "General Medicine"
      [] kpi_mapping = "MSLT_VACCINES" -> "Vaccines"
      [] kpi_mapping = "MSLT_SPECIALTY_CARE" -> "Specialty Care"
      [] kpi_mapping = "X" -> "X"

\* get_available_mns_clusters (data.py, lines 513-553)
get_available_mns_clusters(bu) ==
    [loaded |-> TRUE, bu |-> bu,
     labels |-> IF bu = "X" THEN <<>> ELSE <<"c0">>]

\* _parse_cluster_selection (lines 409-421): the clusters selected, <<>>
\* for None
_parse_cluster_selection(rest, clusters) ==
    IF rest = "" \/ ~clusters.loaded THEN <<>>
    ELSE IF ~IsDigit(rest) THEN <<>>
    ELSE IF 0 <= ToInt(rest) /\ ToInt(rest) < Len(clusters.labels)
         THEN <<clusters.labels[ToInt(rest) + 1]>>
         ELSE <<>>

\* The explained_entropy column of the frames run_correlation returns to
\* the console, in hundredths
ConsoleResults == {<<>>, <<10, 30, 31, NaN>>, <<11, 0, 100>>}

\* the indicator with an undefined entropy taken for a strong one
ConsoleSignalNaNStrong(ee) ==
    IF ~Le(ee, 30) THEN "***"
    ELSE IF ~Le(ee, 10) THEN "** "
    ELSE "*  "

\* _interactive_correlate, lines 583-589: the signal strength indicator
ConsoleSignal(ee) ==
    IF Gt(ee, 30) THEN "***"
    ELSE IF Gt(ee, 10) THEN "** "
    ELSE "*  "

ConInit ==
    /\ BatchIdle
    /\ AggIdle
    /\ TeamIdle
    /\ candidates = <<>>
    /\ profile = NoProfileDict
    /\ mns_clusters = NoClusters
    /\ last_ppl_data = NoFrame
    /\ last_domain_df = NoFrame
    /\ con_last = NoCommand
    /\ con_rca = NoRca
    /\ con_n = 0
    /\ con_pc = "prompt"

conFrame == <<batchVars, agg_in, agg_cols, agg_in_dtype, agg_out, agg_again,
              agg_pc, fltVars, rcaVars, teamVars>>

\* a line is read at the prompt (lines 83-96)
Typed(cmd, arg, calls) ==
    /\ con_pc = "prompt"
    /\ con_n < MaxCommands
    /\ con_n' = con_n + 1
    /\ con_last' = [cmd |-> cmd, arg |-> arg, calls |-> calls]

\* a command that prints a message and goes on to the next line
Rejected(cmd, arg) ==
    /\ Typed(cmd, arg, {})
    /\ UNCHANGED <<candidates, profile, mns_clusters, last_ppl_data,
                   last_domain_df, con_rca, con_pc, conFrame>>

\* lines 98-102
Find(results) ==
    /\ Typed("find", "", {"find_manager"})
    /\ candidates' = results
    /\ profile' = NoProfileDict
    /\ mns_clusters' = NoClusters
    /\ UNCHANGED <<last_ppl_data, last_domain_df, con_rca, con_pc, conFrame>>

\* the select of lines 105-116 that keeps the clusters
ClustersAfterSelectKept(clusters) == clusters

\* line 116: mns_clusters = None
ClustersAfterSelect(clusters) == NoClusters

\* lines 105-116
Select(rest) ==
    LET idx_given == IsDigit(rest) IN
    IF candidates = <<>> \/ ~idx_given
        THEN Rejected("select", rest)
    ELSE IF ToInt(rest) < 0 \/ ToInt(rest) >= Len(candidates)
        THEN Rejected("select", rest)
    ELSE /\ Typed("select", rest, {"get_manager_profile"})
         /\ profile' = ConsoleProfile(candidates[ToInt(rest) + 1])
         /\ mns_clusters' = ClustersAfterSelect(mns_clusters)
         /\ UNCHANGED <<candidates, last_ppl_data, last_domain_df, con_rca,
                        con_pc, conFrame>>

\* lines 119-129
Profile(mc) ==
    IF mc = ""
        THEN Rejected("profile", mc)
    ELSE /\ Typed("profile", mc, {"get_manager_profile"})
         /\ profile' = ConsoleProfile(mc)
         /\ mns_clusters' = NoClusters
         /\ UNCHANGED <<candidates, last_ppl_data, last_domain_df, con_rca,
                        con_pc, conFrame>>

\* lines 132-144
SetKpi(code) ==
    IF ~profile.found
        THEN Rejected("set-kpi", code)
    ELSE IF code = ""
        THEN Rejected("set-kpi", code)
    ELSE /\ Typed("set-kpi", code, {"set_kpi_mapping"})
         /\ profile' = [profile EXCEPT !.kpi_mapping = code]
         /\ mns_clusters' = NoClusters
         /\ UNCHANGED <<candidates, last_ppl_data, last_domain_df, con_rca,
                        con_pc, conFrame>>

\* lines 147-158
Clusters ==
    IF ~profile.found \/ profile.kpi_mapping = ""
        THEN Rejected("clusters", "")
    ELSE LET bu == resolve_business_unit(profile.kpi_mapping) IN
         /\ Typed("clusters", "",
                  IF mns_clusters.loaded THEN {"resolve_business_unit"}
                  ELSE {"resolve_business_unit", "get_available_mns_clusters"})
         /\ mns_clusters' = IF mns_clusters.loaded THEN mns_clusters
                            ELSE get_available_mns_clusters(bu)
         /\ UNCHANGED <<candidates, profile, last_ppl_data, last_domain_df,
                        con_rca, con_pc, conFrame>>

\* _interactive_kpis (lines 424-536): (ppl_data, domain_df), given whether
\* the two loads return rows
_interactive_kpis(p, ppl_rows, domain_rows) ==
    LET raw_data == [loaded |-> TRUE, manager |-> p.employee_code,
                     kpi_mapping |-> ""]
        domain_df == [loaded |-> TRUE, manager |-> p.employee_code,
                      kpi_mapping |-> p.kpi_mapping]
    IN IF ~ppl_rows THEN <<NoFrame, NoFrame>>
       ELSE IF p.kpi_mapping = "" THEN <<raw_data, NoFrame>>
       ELSE IF ~domain_rows THEN <<raw_data, NoFrame>>
       ELSE <<raw_data, domain_df>>

\* lines 161-186
Kpis(rest, ppl_rows, domain_rows) ==
    IF ~profile.found
        THEN Rejected("kpis", rest)
    ELSE LET kpi_rest == IF rest = "--all" THEN "" ELSE rest
             autoload == kpi_rest /= "" /\ ~mns_clusters.loaded
                             /\ profile.kpi_mapping /= ""
             clusters == IF autoload
                         THEN get_available_mns_clusters(
                                  resolve_business_unit(profile.kpi_mapping))
                         ELSE mns_clusters
             selected == _parse_cluster_selection(kpi_rest, clusters)
             loaded == _interactive_kpis(profile, ppl_rows, domain_rows)
             calls == IF autoload THEN {"get_available_mns_clusters"} ELSE {}
         IN /\ mns_clusters' = clusters
            /\ IF kpi_rest /= "" /\ selected = <<>> /\ clusters.loaded
               THEN /\ Typed("kpis", rest, calls)
                    /\ UNCHANGED <<last_ppl_data, last_domain_df>>
               ELSE /\ Typed("kpis", rest, calls \cup {"_interactive_kpis"})
                    /\ last_ppl_data' = loaded[1]
                    /\ last_domain_df' = loaded[2]
            /\ UNCHANGED <<candidates, profile, con_rca, con_pc, conFrame>>

\* the tests of lines 190 and 193 left out
NotLoadedNever(frame) == FALSE

\* lines 190 and 193: the frame is None (kpis returns no empty domain frame)
NotLoaded(frame) == ~frame.loaded

\* lines 189-196 and _interactive_correlate (lines 541-601): the options
\* are parsed, run_correlation is called and returns a frame or raises, and
\* the pairs of a frame that is not empty are printed with their signal
\* under the profile's label; profile.get fails on None
Correlate(rest) ==
    IF NotLoaded(last_ppl_data)
        THEN Rejected("correlate", rest)
    ELSE IF NotLoaded(last_domain_df)
        THEN Rejected("correlate", rest)
    ELSE IF rest /= ""
        THEN /\ Typed("correlate", rest, {"_interactive_correlate"})
             /\ UNCHANGED <<candidates, profile, mns_clusters, last_ppl_data,
                            last_domain_df, con_rca, con_pc, conFrame>>
    ELSE /\ Typed("correlate", rest, {"_interactive_correlate", "run_correlation"})
         /\ \/ /\ con_rca' = [ran |-> TRUE, ppl_data |-> last_ppl_data,
                              domain_df |-> last_domain_df, profile |-> profile,
                              result |-> <<>>, signals |-> <<>>]
               /\ con_pc' = "crashed"
            \/ \E result \in ConsoleResults :
                  /\ con_rca' = [ran |-> TRUE, ppl_data |-> last_ppl_data,
                                 domain_df |-> last_domain_df,
                                 profile |-> profile,
                                 result |-> result,
                                 signals |-> IF profile.found
                                             THEN [i \in DOMAIN result |->
                                                      ConsoleSignal(result[i])]
                                             ELSE <<>>]
                  /\ con_pc' = IF Len(result) > 0 /\ ~profile.found
                               THEN "crashed" ELSE "prompt"
         /\ UNCHANGED <<candidates, profile, mns_clusters, last_ppl_data,
                        last_domain_df, conFrame>>

\* lines 199-200 and 207-208: help, and a word that is no command
Help(cmd) == Rejected(cmd, "")

\* lines 203-205
Quit ==
    /\ Typed("quit", "", {})
    /\ con_pc' = "quit"
    /\ UNCHANGED <<candidates, profile, mns_clusters, last_ppl_data,
                   last_domain_df, con_rca, conFrame>>

ConNext ==
    \/ \E results \in FindResults : Find(results)
    \/ \E rest \in SelectArgs : Select(rest)
    \/ \E mc \in ConsoleCodes \cup {""} : Profile(mc)
    \/ \E code \in SetKpiArgs : SetKpi(code)
    \/ Clusters
    \/ \E rest \in KpisArgs, ppl_rows \in BOOLEAN, domain_rows \in BOOLEAN :
           Kpis(rest, ppl_rows, domain_rows)
    \/ \E rest \in CorrelateArgs : Correlate(rest)
    \/ \E cmd \in {"help", "foo"} : Help(cmd)
    \/ Quit

ConsoleSpec == ConInit /\ [][ConNext]_vars

(***************************************************************************)
(* Properties of the console.                                              *)
(***************************************************************************)
\* the tier of an explained entropy, in hundredths
Tier(ee) ==
    IF ee /= NaN /\ ee > 30 THEN 3
    ELSE IF ee /= NaN /\ ee > 10 /\ ee <= 30 THEN 2
    ELSE 1

Stars(tier) ==
    CASE tier = 3 -> "***"
      [] tier = 2 -> "** "
      [] tier = 1 -> "*  "

MissingPrerequisite(cmd, arg) ==
    \/ /\ cmd = "select"
       /\ \/ candidates = <<>>
          \/ IsDigit(arg) /\ ToInt(arg) >= Len(candidates)
    \/ cmd \in {"set-kpi", "clusters", "kpis"} /\ ~profile.found
    \/ cmd = "correlate" /\ (~last_ppl_data.loaded \/ ~last_domain_df.loaded)

\* C26: a command typed without its prerequisite makes no call and leaves
\* candidates, profile, mns_clusters, last_ppl_data and last_domain_df as
\* they were.
C26_RejectedCommandChangesNothing ==
    [][(con_n' = con_n + 1 /\ MissingPrerequisite(con_last'.cmd, con_last'.arg)) =>
           /\ con_last'.calls = {}
           /\ con_rca' = con_rca
           /\ UNCHANGED <<candidates, profile, mns_clusters, last_ppl_data,
                          last_domain_df>>]_vars

\* correlate was typed when kpis had loaded PPL data and no domain data,
\* and made no call
C26_Witness ==
    /\ con_last.cmd = "correlate"
    /\ con_last.calls = {}
    /\ last_ppl_data.loaded
    /\ ~last_domain_df.loaded
    /\ profile.found

\* C27: whenever correlate runs the RCA, the frames it analyses were loaded
\* by kpis for the profile that is current: the same manager and the same
\* kpi_mapping.
C27_CorrelateUsesCurrentProfile ==
    con_rca.ran =>
        /\ con_rca.profile.found
        /\ con_rca.ppl_data.manager = con_rca.profile.employee_code
        /\ con_rca.domain_df.manager = con_rca.profile.employee_code
        /\ con_rca.domain_df.kpi_mapping = con_rca.profile.kpi_mapping

\* C28: a cluster list that is not None was loaded for the business unit of
\* the current profile's kpi_mapping, and it is None after a find, a
\* select, a profile <code> and a set-kpi that ran.
C28_ClustersOfCurrentProfile ==
    /\ mns_clusters.loaded =>
           /\ profile.found
           /\ profile.kpi_mapping /= ""
           /\ mns_clusters.bu = resolve_business_unit(profile.kpi_mapping)
    /\ (con_last.cmd \in {"find", "select", "profile", "set-kpi"}
            /\ con_last.calls /= {}) => ~mns_clusters.loaded

\* the clusters were loaded anew after a set-kpi had cleared those of the
\* suggested mapping
C28_Witness ==
    /\ con_last.cmd = "clusters"
    /\ "get_available_mns_clusters" \in con_last.calls
    /\ profile.employee_code = "m1"
    /\ profile.kpi_mapping = "MSLT_GENERAL_MEDICINE"
    /\ mns_clusters.bu = "General Medicine"

(***************************************************************************)
(* Part VI.  _load_active_teams, data.py lines 445-510.  A snapshot is the *)
(* number of its month, a later month a larger number; the snapshot "" of  *)
(* a manager without snapshots is 0.  team_db gives, for each month in     *)
(* which the manager has employees, the rows manager_active_teams.sql      *)
(* returns for it; an organization level code is a number, NULL when the   *)
(* level is not resolved.                                                  *)
(***************************************************************************)
\* LIMIT 4 of the snapshot query (line 462)
SnapshotLimit == 4

\* the rows of manager_active_teams.sql for a snapshot: a team without
\* organization level (shape 1), a team with one (2), or both (3)
TeamRows(snap, shape) ==
    LET unresolved == [organization_level_code |-> NULL, geo_code |-> "G1",
                       team_size |-> snap]
        resolved == [organization_level_code |-> 1, geo_code |-> "G2",
                     team_size |-> 10 + snap]
    IN CASE shape = 1 -> <<unresolved>>
         [] shape = 2 -> <<resolved>>
         [] shape = 3 -> <<unresolved, resolved>>

\* a shape for each month, 0 for a month without snapshot
TeamDbs ==
    {[m \in {n \in 1..MaxSnapshots : shapes[n] /= 0} |-> TeamRows(m, shapes[m])] :
         shapes \in [1..MaxSnapshots -> 0..3]}

\* SELECT DISTINCT ... ORDER BY snap DESC LIMIT 4 (lines 456-463): the
\* first `limit` months of a set, the latest first
RECURSIVE LatestSnapshots(_, _)
LatestSnapshots(months, limit) ==
    IF months = {} \/ limit = 0 THEN <<>>
    ELSE LET latest == CHOOSE m \in months : \A n \in months : n <= m
         IN <<latest>> \o LatestSnapshots(months \ {latest}, limit - 1)

\* every row taken for a team with an organization level
ResolvedAlways(t) == TRUE

\* line 485: org is not None and pd.notna(org)
Resolved(t) == t.organization_level_code /= NULL

\* lines 483-491: the teams of a snapshot that have an organization level
ActiveTeams(teams_df) ==
    LET kept == SelectSeq(teams_df, Resolved)
    IN [i \in DOMAIN kept |-> [org_level |-> kept[i].organization_level_code,
                               geo |-> kept[i].geo_code,
                               size |-> kept[i].team_size]]

\* lines 502-509: every team of a snapshot, without organization level
GeoOnlyTeams(teams_df) ==
    [i \in DOMAIN teams_df |-> [org_level |-> NULL,
                                geo |-> teams_df[i].geo_code,
                                size |-> teams_df[i].team_size]]

TeamInit ==
    /\ BatchIdle
    /\ AggIdle
    /\ ConIdle
    /\ team_db \in TeamDbs
    /\ team_snaps = <<>>
    /\ team_i = 0
    /\ team_queries = <<>>
    /\ team_result = NoTeams
    /\ team_pc = "start"

teamFrame == <<batchVars, agg_in, agg_cols, agg_in_dtype, agg_out, agg_again,
               agg_pc, fltVars, rcaVars, conVars, team_db>>

\* lines 456-475: the snapshots are read; without any, ([], "") is returned
FetchSnapshots ==
    /\ team_pc = "start"
    /\ LET snaps_df == LatestSnapshots(DOMAIN team_db, SnapshotLimit)
       IN /\ team_snaps' = snaps_df
          /\ IF Len(snaps_df) = 0
             THEN /\ team_result' = NoTeams
                  /\ team_pc' = "returned"
                  /\ team_i' = team_i
             ELSE /\ team_result' = team_result
                  /\ team_pc' = "loop"
                  /\ team_i' = 1
    /\ UNCHANGED <<teamFrame, team_queries>>

\* lines 479-498: one turn of the loop over snaps_df
TrySnapshot ==
    /\ team_pc = "loop"
    /\ LET snap == team_snaps[team_i]
           active_teams == ActiveTeams(team_db[snap])
       IN /\ team_queries' = Append(team_queries, snap)
          /\ IF Len(active_teams) > 0
             THEN /\ team_result' = [teams |-> active_teams, snap |-> snap]
                  /\ team_pc' = "returned"
                  /\ team_i' = team_i
             ELSE /\ team_result' = team_result
                  /\ team_i' = team_i + 1
                  /\ team_pc' = IF team_i = Len(team_snaps)
                                THEN "fallback" ELSE "loop"
    /\ UNCHANGED <<teamFrame, team_snaps>>

\* lines 500-510: the teams of the latest snapshot, by geography only
GeoOnlyFallback ==
    /\ team_pc = "fallback"
    /\ LET latest_snap == team_snaps[1]
       IN /\ team_queries' = Append(team_queries, latest_snap)
          /\ team_result' = [teams |-> GeoOnlyTeams(team_db[latest_snap]),
                             snap |-> latest_snap]
    /\ team_pc' = "returned"
    /\ UNCHANGED <<teamFrame, team_snaps, team_i>>

TeamNext == FetchSnapshots \/ TrySnapshot \/ GeoOnlyFallback
TeamSpec == TeamInit /\ [][TeamNext]_vars

(***************************************************************************)
(* Properties of _load_active_teams.                                       *)
(***************************************************************************)
\* the months of the manager's snapshots that are among the 4 latest
FourLatest ==
    {m \in DOMAIN team_db :
        Cardinality({n \in DOMAIN team_db : n > m}) < 4}

\* the snapshot has a team with an organization level
HasResolvedTeam(m) ==
    \E i \in DOMAIN team_db[m] : team_db[m][i].organization_level_code /= NULL

\* C30: _load_active_teams asks for the teams of the manager's snapshots
\* from the newest to the oldest, for the 4 latest at most, and returns the
\* teams with an organization level of the first snapshot that has one,
\* with that snapshot's date; if none of them has one it returns every team
\* of the latest snapshot with org_level null; without a snapshot it returns
\* an empty list.
C30_FirstResolvedSnapshot ==
    /\ \A i \in DOMAIN team_queries :
           /\ team_queries[i] \in FourLatest
           /\ (i > 1 /\ team_pc /= "returned") => team_queries[i] < team_queries[i - 1]
    /\ team_pc = "returned" =>
           IF DOMAIN team_db = {} THEN team_result = NoTeams /\ team_queries = <<>>
           ELSE IF \E m \in FourLatest : HasResolvedTeam(m)
           THEN LET first == CHOOSE m \in FourLatest :
                                 /\ HasResolvedTeam(m)
                                 /\ \A n \in FourLatest : HasResolvedTeam(n) => n <= m
                IN /\ team_result.snap = first
                   /\ Len(team_result.teams) > 0
                   /\ \A i \in DOMAIN team_result.teams :
                          /\ team_result.teams[i].org_level /= NULL
                          /\ \E j \in DOMAIN team_db[first] :
                                 /\ team_db[first][j].organization_level_code
                                        = team_result.teams[i].org_level
                                 /\ team_db[first][j].geo_code = team_result.teams[i].geo
                                 /\ team_db[first][j].team_size = team_result.teams[i].size
                   /\ Len(team_result.teams)
                          = Cardinality({j \in DOMAIN team_db[first] :
                                team_db[first][j].organization_level_code /= NULL})
                   /\ \A m \in FourLatest : m >= first <=>
                          \E i \in DOMAIN team_queries : team_queries[i] = m
           ELSE LET latest == CHOOSE m \in FourLatest : \A n \in FourLatest : n <= m
                IN /\ team_result.snap = latest
                   /\ Len(team_result.teams) = Len(team_db[latest])
                   /\ \A i \in DOMAIN team_result.teams :
                          /\ team_result.teams[i].org_level = NULL
                          /\ team_result.teams[i].geo = team_db[latest][i].geo_code
                          /\ team_result.teams[i].size = team_db[latest][i].team_size

\* the third snapshot tried was the first with a resolved team, beside one
\* without, and its resolved team was returned
C30_Witness ==
    /\ team_pc = "returned"
    /\ Len(team_queries) = 3
    /\ Len(team_db[team_result.snap]) = 2
    /\ Len(team_result.teams) = 1
    /\ team_result.teams[1].org_level = 1

\* five snapshots of which only the oldest has a resolved team: the teams
\* of the latest were returned by geography
C30_WitnessFallback ==
    /\ team_pc = "returned"
    /\ Cardinality(DOMAIN team_db) = 5
    /\ \E m \in DOMAIN team_db : HasResolvedTeam(m)
    /\ Len(team_queries) = 5
    /\ team_result.teams[1].org_level = NULL

====
